---- MODULE Spec2Model ----
(***************************************************************************)
(* Causal-graph engine of sd-ai (package causal, structured_output.go):    *)
(* Map.Variables, Map.Loops, findCycles, searchState.search and            *)
(* searchState.addCycle.                                                   *)
(*                                                                         *)
(* A Go string is modelled as the sequence of its characters, each an      *)
(* ASCII code (0..127), so that strings.ToLower, strings.TrimSpace and the *)
(* byte-wise ordering of strings are computed, not assumed.  Go slices are *)
(* sequences; an index returned by slices.Index is 1-based here and 0      *)
(* stands for Go's -1.                                                     *)
(***************************************************************************)
EXTENDS Integers, Sequences, FiniteSets, TLC

(* ------------------------------ bounds -------------------------------- *)

\* Largest number of variable mentions (initial variables plus entries) of a
\* Map drawn by Init.
MaxSlots == 5

\* Largest number of variable mentions of a Map drawn by InitAlias.
MaxAliasSlots == 4

\* Largest number of Loops() calls made on one Map in a behaviour.
MaxCalls == 2

\* Number of relationship entries of the single chain drawn by InitWalk.
WalkLen == 6

\* Largest length of the ring of relationships drawn by InitRing.
MaxRing == 4

\* Largest number of variable mentions in a Map drawn by InitBlank.
MaxBlankSlots == 4

\* Largest number of relationships in a document drawn by InitShapes.
MaxFlatLen == 2

\* Largest number of nouns the chained loops drawn by InitChained run over.
MaxNouns == 6

\* Largest number of elements added to one Set, NewSet's arguments included.
MaxAdds == 3

\* Largest number of variable mentions in a Map drawn by InitPeers.
MaxPeerSlots == 4

\* Largest number of relationships in a list drawn by InitMulti.
MaxEdges == 3

\* Number of variable mentions of the one chain drawn by InitLine.
MaxMentions == 5

(* ------------------------------ strings ------------------------------- *)

\* strings.ToLower: unicode.ToLower on every character, 'A'..'Z' ->
\* 'a'..'z' (ASCII).
ToLower(s) ==
    LET LowerByte(c) == IF c >= 65 /\ c <= 90 THEN c + 32 ELSE c
    IN  [i \in 1..Len(s) |-> LowerByte(s[i])]

\* unicode.IsSpace on one ASCII character: \t \n \v \f \r and space.
IsSpace(c) == c \in {9, 10, 11, 12, 13, 32}

\* strings.TrimSpace: drops the leading and the trailing white space.
TrimSpace(s) ==
    LET keep == {i \in 1..Len(s) : ~IsSpace(s[i])}
        Lo == CHOOSE i \in keep : \A j \in keep : i <= j
        Hi == CHOOSE i \in keep : \A j \in keep : j <= i
    IN  IF keep = {} THEN <<>> ELSE SubSeq(s, Lo, Hi)

\* A normalization that folds the case and keeps the white space.
NormalizeNoTrim(s) == ToLower(s)

\* strings.TrimSpace(strings.ToLower(x)): the identity of a variable.
Normalize(s) == TrimSpace(ToLower(s))

\* cmp.Compare on strings: byte-wise lexicographic order, -1, 0 or 1.
RECURSIVE StrCompare(_, _)
StrCompare(a, b) ==
    IF a = <<>> /\ b = <<>> THEN 0
    ELSE IF a = <<>> THEN -1
    ELSE IF b = <<>> THEN 1
    ELSE IF Head(a) < Head(b) THEN -1
    ELSE IF Head(a) > Head(b) THEN 1
    ELSE StrCompare(Tail(a), Tail(b))

(* ------------------------------ slices -------------------------------- *)

\* An Index that clamps "not found" to the first position.
IndexClamped(s, x) ==
    IF \E i \in 1..Len(s) : s[i] = x
    THEN CHOOSE i \in 1..Len(s) : s[i] = x /\ \A j \in 1..(i - 1) : s[j] # x
    ELSE 1

\* slices.Index: position of the first occurrence of x in s, 0 if none.
Index(s, x) ==
    IF \E i \in 1..Len(s) : s[i] = x
    THEN CHOOSE i \in 1..Len(s) : s[i] = x /\ \A j \in 1..(i - 1) : s[j] # x
    ELSE 0

\* A Min that returns the greatest string.
MinIsMax(s) == s[CHOOSE i \in 1..Len(s) : \A j \in 1..Len(s) : StrCompare(s[i], s[j]) >= 0]

\* slices.Min on a non-empty slice of strings.
Min(s) == s[CHOOSE i \in 1..Len(s) : \A j \in 1..Len(s) : StrCompare(s[i], s[j]) <= 0]

\* slices.Compare on slices of strings.
RECURSIVE SliceCompare(_, _)
SliceCompare(a, b) ==
    IF a = <<>> /\ b = <<>> THEN 0
    ELSE IF a = <<>> THEN -1
    ELSE IF b = <<>> THEN 1
    ELSE IF StrCompare(Head(a), Head(b)) # 0 THEN StrCompare(Head(a), Head(b))
    ELSE SliceCompare(Tail(a), Tail(b))

(* -------------------------------- Set --------------------------------- *)

\* Set[T].Add: idempotent insert.
SetAdd(s, e) == s \cup {e}

\* Set[T].Contains
SetContains(s, e) == e \in s

\* NewSet: a Set with the elements added one after the other.
RECURSIVE NewSet(_)
NewSet(elements) ==
    IF elements = <<>> THEN {}
    ELSE SetAdd(NewSet(SubSeq(elements, 1, Len(elements) - 1)), elements[Len(elements)])

\* Set[T].Slice, the range loop: the elements appended in the order the map
\* yields them, which Go leaves unspecified.
Collected(s) ==
    {c \in [1..Cardinality(s) -> s] : \A i, j \in 1..Cardinality(s) : i # j => c[i] # c[j]}

\* Insertion of x into the ascending slice s.
RECURSIVE InsertSorted(_, _)
InsertSorted(s, x) ==
    IF s = <<>> THEN <<x>>
    ELSE IF StrCompare(s[Len(s)], x) <= 0 THEN Append(s, x)
    ELSE Append(InsertSorted(SubSeq(s, 1, Len(s) - 1), x), s[Len(s)])

\* slices.Sort on a slice of strings: ascending by cmp.Compare.
RECURSIVE Sort(_)
Sort(s) ==
    IF s = <<>> THEN <<>>
    ELSE InsertSorted(Sort(SubSeq(s, 1, Len(s) - 1)), s[Len(s)])

\* A Slice that returns the elements as collected, without sorting them.
SliceUnsorted(collected) == collected

\* Set[T].Slice, after the range loop: slices.Sort(slice); return slice.
Slice(collected) == Sort(collected)

(* -------------------------------- Map --------------------------------- *)

\* A Variables that adds the names as written, as before normalization
\* was introduced.
RECURSIVE VariablesRaw(_)
VariablesRaw(chains) ==
    IF chains = <<>> THEN {}
    ELSE LET c == chains[Len(chains)]
             before == VariablesRaw(SubSeq(chains, 1, Len(chains) - 1))
             withInitial == SetAdd(before, c.InitialVariable)
         IN  withInitial \cup
             {c.Relationships[i].Variable : i \in 1..Len(c.Relationships)}

\* A Variables() that keeps the variables of the last chain only.
VariablesLastChain(chains) ==
    IF chains = <<>> THEN {}
    ELSE LET c == chains[Len(chains)]
         IN  {Normalize(c.InitialVariable)} \cup
             {Normalize(c.Relationships[i].Variable) : i \in 1..Len(c.Relationships)}

\* Map.Variables: the normalized initial variable and entry variables of
\* every chain.
RECURSIVE Variables(_)
Variables(chains) ==
    IF chains = <<>> THEN {}
    ELSE LET c == chains[Len(chains)]
             before == Variables(SubSeq(chains, 1, Len(chains) - 1))
             withInitial == SetAdd(before, Normalize(c.InitialVariable))
         IN  withInitial \cup
             {Normalize(c.Relationships[i].Variable) : i \in 1..Len(c.Relationships)}

\* A choice of from that takes the initial variable for every entry.
FromOfInitial(chain, i) == chain.InitialVariable

\* The source vertex of entry i of a chain (Loops, the choice of from).
FromOf(chain, i) ==
    IF i = 1 THEN chain.InitialVariable ELSE chain.Relationships[i - 1].Variable

\* An edge insertion that keeps one copy of a repeated edge.
AddEdgeOnce(out, from, to) ==
    [k \in DOMAIN out \cup {from} |->
        IF k = from
        THEN LET old == IF from \in DOMAIN out THEN out[from] ELSE <<>>
             IN  IF \E i \in 1..Len(old) : old[i] = to THEN old ELSE Append(old, to)
        ELSE out[k]]

\* outgoing[from] = append(outgoing[from], to); a missing key reads as nil.
AddEdge(out, from, to) ==
    [k \in DOMAIN out \cup {from} |->
        IF k = from
        THEN Append(IF from \in DOMAIN out THEN out[from] ELSE <<>>, to)
        ELSE out[k]]

\* The inner loop of Loops over chain.Relationships[1..n], applied to out.
RECURSIVE ChainEdges(_, _, _)
ChainEdges(out, chain, n) ==
    IF n = 0 THEN out
    ELSE AddEdge(ChainEdges(out, chain, n - 1),
                 Normalize(FromOf(chain, n)),
                 Normalize(chain.Relationships[n].Variable))

\* The outer loop of Loops: the map of all outgoing edges of the diagram.
RECURSIVE Outgoing(_)
Outgoing(chains) ==
    IF chains = <<>> THEN <<>>
    ELSE LET c == chains[Len(chains)]
         IN  ChainEdges(Outgoing(SubSeq(chains, 1, Len(chains) - 1)),
                        c, Len(c.Relationships))

\* s.edges[v]: the neighbours of v, nil for a vertex with no outgoing edge.
EdgesOf(out, v) == IF v \in DOMAIN out THEN out[v] ELSE <<>>

(* ---------------------------- cycle search ---------------------------- *)

\* An addCycle that records the path as discovered, without rotating it.
RotateNot(path) == path

\* addCycle, the rotation: the lowest-named variable first.
Rotate(path) ==
    LET i == Index(path, Min(path))
    IN  SubSeq(path, i, Len(path)) \o SubSeq(path, 1, i - 1)

\* A search that hands the whole path to addCycle instead of path[i:].
CycleSegmentWholePath(path, i) == path

\* A search that slices the path after the neighbour: path[i+1:].
CycleSegmentAfter(path, i) == SubSeq(path, i + 1, Len(path))

\* search, the argument of addCycle: path[i:], the path from the neighbour on.
CycleSegment(path, i) == SubSeq(path, i, Len(path))

\* An addCycle that appends without looking for an earlier record.
addCycleAlways(fnd, path) == Append(fnd, Rotate(path))

\* An addCycle that takes two paths over the same vertices for one cycle.
addCycleBySet(fnd, path) ==
    IF \E k \in 1..Len(fnd) : {fnd[k][i] : i \in 1..Len(fnd[k])} = {path[i] : i \in 1..Len(path)}
    THEN fnd ELSE Append(fnd, Rotate(path))

\* addCycle: record the rotated path unless it is already recorded.
addCycle(fnd, path) ==
    LET cycle == Rotate(path)
    IN  IF \E k \in 1..Len(fnd) : fnd[k] = cycle THEN fnd ELSE Append(fnd, cycle)

\* A Loops that returns the cycles as recorded, without closing them.
CloseLoopsOpen(all) == all

\* Loops: repeat the initial element as the last one of every loop.
CloseLoops(all) == [i \in 1..Len(all) |-> Append(all[i], all[i][1])]

\* A comparison that ignores the lengths.
LoopCompareNoLength(a, b) == SliceCompare(a, b)

\* Loops, the comparison handed to slices.SortStableFunc.
LoopCompare(a, b) ==
    IF Len(a) < Len(b) THEN -1
    ELSE IF Len(a) > Len(b) THEN 1
    ELSE SliceCompare(a, b)

\* Stable insertion of x into the sorted slice s: after every element that
\* does not compare greater than x.
RECURSIVE InsertStable(_, _)
InsertStable(s, x) ==
    IF s = <<>> THEN <<x>>
    ELSE IF LoopCompare(s[Len(s)], x) <= 0 THEN Append(s, x)
    ELSE Append(InsertStable(SubSeq(s, 1, Len(s) - 1), x), s[Len(s)])

\* A Loops that returns the loops in discovery order.
SortNot(s) == s

\* slices.SortStableFunc with LoopCompare: equal elements keep their order.
RECURSIVE SortStable(_)
SortStable(s) ==
    IF s = <<>> THEN <<>>
    ELSE InsertStable(SortStable(SubSeq(s, 1, Len(s) - 1)), s[Len(s)])

\* A NewMap that leaves out the last relationship.
NewMapButLast(relationships) ==
    [Title |-> "", Explanation |-> "",
     CausalChains |->
        [i \in 1..(Len(relationships) - 1) |->
            [InitialVariable |-> relationships[i].From,
             Relationships |->
                <<[Variable |-> relationships[i].To,
                   Polarity |-> relationships[i].Polarity,
                   PolarityReasoning |-> relationships[i].PolarityReasoning]>>,
             Reasoning |-> ""]]]

\* NewMap: one chain per relationship, in input order.  The fields it does
\* not set keep Go's zero value, the empty string.
NewMap(relationships) ==
    [Title |-> "", Explanation |-> "",
     CausalChains |->
        [i \in 1..Len(relationships) |->
            [InitialVariable |-> relationships[i].From,
             Relationships |->
                <<[Variable |-> relationships[i].To,
                   Polarity |-> relationships[i].Polarity,
                   PolarityReasoning |-> relationships[i].PolarityReasoning]>>,
             Reasoning |-> ""]]]

(* ------------------------------- inputs ------------------------------- *)

\* Variable mentions as a language model writes them: "B", " a", "ab ".
RawNames == {<<66>>, <<32, 97>>, <<97, 98, 32>>}

\* Mentions of which two are spellings of one variable: "A", " a", "ab ", "B".
AliasNames == {<<65>>, <<32, 97>>, <<97, 98, 32>>, <<66>>}

\* Mentions of the Maps two threads call on: "B", " a".
PeerNames == {<<66>>, <<32, 97>>}

\* The elements of the Sets under test: "", "B", "a".
SetElements == {<<>>, <<66>>, <<97>>}

\* The argument lists of NewSet of at most n elements.
ElementLists(n) == UNION {[1..k -> SetElements] : k \in 0..n}

\* Mentions that normalize to the empty name, and one that does not:
\* "", " ", "A".
BlankNames == {<<>>, <<32>>, <<65>>}

\* Names of the walk and ring inputs: "A", "b", "C ", "d", "E", "f".
PlainNames == <<(<<65>>), (<<98>>), (<<67, 32>>), (<<100>>), (<<69>>), (<<102>>)>>

\* The chains that mention k variables: an initial variable and k - 1 entries.
ChainsOfSize(names, k) ==
    {[InitialVariable |-> n, Relationships |-> es, Reasoning |-> "why"] :
        n \in names,
        es \in [1..(k - 1) ->
                  [Variable : names, Polarity : {"+"}, PolarityReasoning : {"how"}]]}

\* The chain lists that mention at most s variables in all.
RECURSIVE ChainLists(_, _)
ChainLists(names, s) ==
    {<<>>} \cup
    UNION {{<<c>> \o rest : c \in ChainsOfSize(names, k), rest \in ChainLists(names, s - k)} :
              k \in 1..s}

\* encoding/json: the value of a key of a JSON object, or the zero value of
\* the Go field when the object has no such key.
Field(obj, key, zero) == IF key \in DOMAIN obj THEN obj[key] ELSE zero

\* json.Unmarshal into a RelationshipEntry, by its json tags.
UnmarshalEntry(e) ==
    [Variable |-> Field(e, "variable", <<>>),
     Polarity |-> Field(e, "polarity", ""),
     PolarityReasoning |-> Field(e, "polarityReasoning", "")]

\* json.Unmarshal into a Chain, by its json tags.
UnmarshalChain(c) ==
    [InitialVariable |-> Field(c, "initial_variable", <<>>),
     Relationships |->
        LET es == Field(c, "relationships", <<>>)
        IN  [i \in 1..Len(es) |-> UnmarshalEntry(es[i])],
     Reasoning |-> Field(c, "reasoning", "")]

\* json.Unmarshal of a document into a Map, by its json tags: title,
\* explanation, causal_chains.  Keys that no field is tagged with are skipped.
Unmarshal(doc) ==
    [Title |-> Field(doc, "title", ""),
     Explanation |-> Field(doc, "explanation", ""),
     CausalChains |->
        LET cs == Field(doc, "causal_chains", <<>>)
        IN  [i \in 1..Len(cs) |-> UnmarshalChain(cs[i])]]

\* json.Unmarshal of a document into a Map of the flat version, by its json
\* tags: title, explanation, relationships, and from, to, polarity,
\* reasoning, polarityReasoning of a Relationship.  Keys that no field is
\* tagged with are skipped.
FlatUnmarshal(doc) ==
    [Title |-> Field(doc, "title", ""),
     Explanation |-> Field(doc, "explanation", ""),
     Relationships |->
        LET rs == Field(doc, "relationships", <<>>)
        IN  [i \in 1..Len(rs) |->
                [From |-> Field(rs[i], "from", <<>>),
                 To |-> Field(rs[i], "to", <<>>),
                 Polarity |-> Field(rs[i], "polarity", ""),
                 Reasoning |-> Field(rs[i], "reasoning", ""),
                 PolarityReasoning |-> Field(rs[i], "polarityReasoning", "")]]]

\* A document in the chain shape that holds the given chains:
\* {title, explanation, causal_chains: [{initial_variable, relationships:
\* [{variable, polarity, polarityReasoning}], reasoning}]}.
ChainDocument(chains) ==
    [title |-> "", explanation |-> "",
     causal_chains |->
        [c \in 1..Len(chains) |->
            [initial_variable |-> chains[c].InitialVariable,
             relationships |->
                [i \in 1..Len(chains[c].Relationships) |->
                    [variable |-> chains[c].Relationships[i].Variable,
                     polarity |-> chains[c].Relationships[i].Polarity,
                     polarityReasoning |-> chains[c].Relationships[i].PolarityReasoning]],
             reasoning |-> chains[c].Reasoning]]]

\* A document in the flat shape that holds the given relationships:
\* {title, explanation, relationships: [{from, to, polarity, reasoning,
\* polarityReasoning}]}.
FlatDocument(rs) ==
    [title |-> "", explanation |-> "",
     relationships |->
        [i \in 1..Len(rs) |->
            [from |-> rs[i].From, to |-> rs[i].To, polarity |-> rs[i].Polarity,
             reasoning |-> rs[i].Reasoning,
             polarityReasoning |-> rs[i].PolarityReasoning]]]

\* The relationship lists of at most n relationships between the names.
RelationshipLists(names, n) ==
    UNION {[1..k -> [From : names, To : names, Polarity : {"+"},
                     Reasoning : {"why"}, PolarityReasoning : {"how"}]] : k \in 0..n}

\* The regression fixture of TestExtractingResults, testMap1, with its names
\* "Tax Burden", "Tensions", "Resistance", "Clashes" as the test writes them.
TaxBurden == <<84, 97, 120, 32, 66, 117, 114, 100, 101, 110>>
Tensions == <<84, 101, 110, 115, 105, 111, 110, 115>>
Resistance == <<82, 101, 115, 105, 115, 116, 97, 110, 99, 101>>
Clashes == <<67, 108, 97, 115, 104, 101, 115>>

\* A relationship with every field set.
FixtureRelationship(from, to) ==
    [From |-> from, To |-> to, Polarity |-> "+",
     Reasoning |-> "why", PolarityReasoning |-> "how"]

\* The seven relationships of testMap1, in the order of the literal.
FixtureRelationships ==
    <<[From |-> TaxBurden, To |-> Tensions, Polarity |-> "+",
       Reasoning |-> "The British government imposed various taxes, such as the Stamp Act and Townshend Acts, which increased the financial burden on American colonies.",
       PolarityReasoning |-> "An increase in Tax Burden led to an increase in Tensions."],
      [From |-> TaxBurden, To |-> Resistance, Polarity |-> "+",
       Reasoning |-> "High taxes fueled protests and boycotts against British goods, demonstrating growing resistance among colonists.",
       PolarityReasoning |-> "An increase in Tax Burden led to an increase in Resistance."],
      [From |-> Tensions, To |-> Clashes, Polarity |-> "+",
       Reasoning |-> "Escalating tensions between British authorities and American patriots raised the probability of violent confrontations.",
       PolarityReasoning |-> "Rising Tensions increased the likelihood of Clashes."],
      [From |-> Resistance, To |-> Clashes, Polarity |-> "+",
       Reasoning |-> "Increased resistance through protests, boycotts, and other forms of dissent heightened the risk of physical confrontations with British forces.",
       PolarityReasoning |-> "As Resistance grew, so did the likelihood of Clashes."],
      [From |-> Clashes, To |-> Tensions, Polarity |-> "+",
       Reasoning |-> "Violent encounters between colonists and British troops intensified feelings of hostility and mistrust, fueling a cycle of escalating violence.",
       PolarityReasoning |-> "An increase in Clashes increased Tensions further."],
      [From |-> Clashes, To |-> Resistance, Polarity |-> "+",
       Reasoning |-> "Each clash between the British and the colonists served to galvanize support among the population for independence, strengthening the resolve of those resisting British authority.",
       PolarityReasoning |-> "An increase in Clashes also increased Resistance as more colonists became determined to fight against British rule."],
      [From |-> Tensions, To |-> TaxBurden, Polarity |-> "+",
       Reasoning |-> "As tensions rose, the British government responded with stricter enforcement of its authority and additional taxation measures, aiming to quell dissent and maintain control.",
       PolarityReasoning |-> "Increased Tensions led to increased Tax Burden as Britain attempted to assert its control over the colonies more firmly."]>>

\* testMap1: a Map literal of the flat version of the package, in which a
\* Map holds its relationships as they are, Reasoning included.
testMap1 ==
    [Title |-> "American Revolution Onset",
     Explanation |-> "Based on historical context and user input,",
     Relationships |-> FixtureRelationships]

\* Variables() of the flat version: the From and To of every relationship,
\* as they are written.
FlatVariables(rs) ==
    {rs[i].From : i \in 1..Len(rs)} \cup {rs[i].To : i \in 1..Len(rs)}

\* The adjacency map the flat version of Loops() builds from the
\* relationship list: outgoing[r.From] = append(outgoing[r.From], r.To) for
\* each relationship in order, the names as they are written.
RECURSIVE FlatOutgoing(_)
FlatOutgoing(rs) ==
    IF rs = <<>> THEN <<>>
    ELSE AddEdge(FlatOutgoing(SubSeq(rs, 1, Len(rs) - 1)),
                 rs[Len(rs)].From, rs[Len(rs)].To)

\* The relationship lists that hold each influence between two different
\* ones of the first three plain names once, in any order.
TriangleLists ==
    LET names == {PlainNames[i] : i \in 1..3}
        pairs == {e \in names \X names : e[1] # e[2]}
    IN  {rs \in [1..Cardinality(pairs) -> {FixtureRelationship(e[1], e[2]) : e \in pairs}] :
            \A i, j \in 1..Cardinality(pairs) : i # j => rs[i] # rs[j]}

\* The elements of a list in the opposite order.
Reverse(s) == [i \in 1..Len(s) |-> s[Len(s) + 1 - i]]

\* plural: pluralizeClient.Plural(s) on a lower-case word that is in neither
\* of the library's tables of irregular and of uncountable words, as every
\* noun of the tests: the first rule that matches the end of the word
\* rewrites it, at the leftmost place it matches.  The rules are those of
\* the library's table, each a set of rewrites of an ending.
plural(s) ==
    LET
        \* The characters of a word with its capitals folded: the ASCII characters
        \* but A..Z.
        Chars == (0..127) \ (65..90)

        \* a, e, i, o, u.
        Vowels == {97, 101, 105, 111, 117}

        \* The characters of a word for a regular expression: letters, digits and
        \* the underscore.
        WordChars == (97..122) \cup (48..57) \cup {95}

        \* w ends with the letters of e, in either case.
        HasSuffix(w, e) ==
            /\ Len(w) >= Len(e)
            /\ ToLower(SubSeq(w, Len(w) - Len(e) + 1, Len(w))) = e

        \* One way a rule rewrites the end of a word: the ending it matches and
        \* what it puts there; whole when the ending must be the whole word.
        R(end, put) == [end |-> end, put |-> put, whole |-> FALSE]

        \* Words the library does not count, by their ending: pok[e\'e]mon (the
        \* second e with an acute accent, character 233), [^aeiou]ese, deer,
        \* fish, measles, o[iu]s, pox, sheep.  They stay as they are.
        uncountableRules ==
            {R(<<112, 111, 107, 101, 109, 111, 110>>, <<112, 111, 107, 101, 109, 111, 110>>),
             R(<<112, 111, 107, 233, 109, 111, 110>>, <<112, 111, 107, 233, 109, 111, 110>>),
             R(<<100, 101, 101, 114>>, <<100, 101, 101, 114>>),
             R(<<102, 105, 115, 104>>, <<102, 105, 115, 104>>),
             R(<<109, 101, 97, 115, 108, 101, 115>>, <<109, 101, 97, 115, 108, 101, 115>>),
             R(<<111, 105, 115>>, <<111, 105, 115>>), R(<<111, 117, 115>>, <<111, 117, 115>>),
             R(<<112, 111, 120>>, <<112, 111, 120>>),
             R(<<115, 104, 101, 101, 112>>, <<115, 104, 101, 101, 112>>)}
            \cup {R(<<c>> \o <<101, 115, 101>>, <<c>> \o <<101, 115, 101>>) : c \in Chars \ Vowels}

        \* thou -> you
        ruleThou ==
            {[end |-> <<116, 104, 111, 117>>, put |-> <<121, 111, 117>>, whole |-> TRUE]}

        \* m[ae]n$ -> men
        ruleMen ==
            {R(<<109, 97, 110>>, <<109, 101, 110>>), R(<<109, 101, 110>>, <<109, 101, 110>>)}

        \* eaux$ stays
        ruleEaux ==
            {R(<<101, 97, 117, 120>>, <<101, 97, 117, 120>>)}

        \* (child)(?:ren)?$ -> $1ren
        ruleChildren ==
            {R(<<99, 104, 105, 108, 100>>, <<99, 104, 105, 108, 100, 114, 101, 110>>),
             R(<<99, 104, 105, 108, 100, 114, 101, 110>>, <<99, 104, 105, 108, 100, 114, 101, 110>>)}

        \* (pe)(?:rson|ople)$ -> $1ople
        rulePeople ==
            {R(<<112, 101, 114, 115, 111, 110>>, <<112, 101, 111, 112, 108, 101>>),
             R(<<112, 101, 111, 112, 108, 101>>, <<112, 101, 111, 112, 108, 101>>)}

        \* \b((?:tit)?m|l)(?:ice|ouse)$ -> $1ice: at the start of the word, or after a
        \* character that is no letter, digit or underscore.
        ruleMice ==
            {[end |-> r.end, put |-> r.put, whole |-> TRUE] : r \in
                {R(<<109, 105, 99, 101>>, <<109, 105, 99, 101>>),
                 R(<<109, 111, 117, 115, 101>>, <<109, 105, 99, 101>>),
                 R(<<116, 105, 116, 109, 105, 99, 101>>, <<116, 105, 116, 109, 105, 99, 101>>),
                 R(<<116, 105, 116, 109, 111, 117, 115, 101>>, <<116, 105, 116, 109, 105, 99, 101>>),
                 R(<<108, 105, 99, 101>>, <<108, 105, 99, 101>>),
                 R(<<108, 111, 117, 115, 101>>, <<108, 105, 99, 101>>)}}
            \cup {R(<<c>> \o r.end, <<c>> \o r.put) : c \in Chars \ WordChars, r \in
                {R(<<109, 105, 99, 101>>, <<109, 105, 99, 101>>),
                 R(<<109, 111, 117, 115, 101>>, <<109, 105, 99, 101>>),
                 R(<<116, 105, 116, 109, 105, 99, 101>>, <<116, 105, 116, 109, 105, 99, 101>>),
                 R(<<116, 105, 116, 109, 111, 117, 115, 101>>, <<116, 105, 116, 109, 105, 99, 101>>),
                 R(<<108, 105, 99, 101>>, <<108, 105, 99, 101>>),
                 R(<<108, 111, 117, 115, 101>>, <<108, 105, 99, 101>>)}}

        \* (matr|cod|mur|sil|vert|ind|append)(?:ix|ex)$ -> $1ices
        ruleIces ==
            {R(<<109, 97, 116, 114, 105, 120>>, <<109, 97, 116, 114, 105, 99, 101, 115>>),
             R(<<109, 97, 116, 114, 101, 120>>, <<109, 97, 116, 114, 105, 99, 101, 115>>),
             R(<<99, 111, 100, 105, 120>>, <<99, 111, 100, 105, 99, 101, 115>>),
             R(<<99, 111, 100, 101, 120>>, <<99, 111, 100, 105, 99, 101, 115>>),
             R(<<109, 117, 114, 105, 120>>, <<109, 117, 114, 105, 99, 101, 115>>),
             R(<<109, 117, 114, 101, 120>>, <<109, 117, 114, 105, 99, 101, 115>>),
             R(<<115, 105, 108, 105, 120>>, <<115, 105, 108, 105, 99, 101, 115>>),
             R(<<115, 105, 108, 101, 120>>, <<115, 105, 108, 105, 99, 101, 115>>),
             R(<<118, 101, 114, 116, 105, 120>>, <<118, 101, 114, 116, 105, 99, 101, 115>>),
             R(<<118, 101, 114, 116, 101, 120>>, <<118, 101, 114, 116, 105, 99, 101, 115>>),
             R(<<105, 110, 100, 105, 120>>, <<105, 110, 100, 105, 99, 101, 115>>),
             R(<<105, 110, 100, 101, 120>>, <<105, 110, 100, 105, 99, 101, 115>>),
             R(<<97, 112, 112, 101, 110, 100, 105, 120>>, <<97, 112, 112, 101, 110, 100, 105, 99, 101, 115>>),
             R(<<97, 112, 112, 101, 110, 100, 101, 120>>, <<97, 112, 112, 101, 110, 100, 105, 99, 101, 115>>)}

        \* (x|ch|ss|sh|zz)$ -> $1es
        ruleEs ==
            {R(<<120>>, <<120, 101, 115>>), R(<<99, 104>>, <<99, 104, 101, 115>>),
             R(<<115, 115>>, <<115, 115, 101, 115>>), R(<<115, 104>>, <<115, 104, 101, 115>>),
             R(<<122, 122>>, <<122, 122, 101, 115>>)}

        \* ([^ch][ieo][ln])ey$ -> $1ies
        ruleEy ==
            {R(<<a, b, c, 101, 121>>, <<a, b, c, 105, 101, 115>>) :
                a \in Chars \ {99, 104}, b \in {105, 101, 111}, c \in {108, 110}}

        \* ([^aeiouy]|qu)y$ -> $1ies
        ruleY ==
            {R(<<c, 121>>, <<c, 105, 101, 115>>) : c \in Chars \ (Vowels \cup {121})}
            \cup {R(<<113, 117, 121>>, <<113, 117, 105, 101, 115>>)}

        \* (?:(kni|wi|li)fe|(ar|l|ea|eo|oa|hoo)f)$ -> $1$2ves
        ruleVes ==
            {R(<<107, 110, 105, 102, 101>>, <<107, 110, 105, 118, 101, 115>>),
             R(<<119, 105, 102, 101>>, <<119, 105, 118, 101, 115>>),
             R(<<108, 105, 102, 101>>, <<108, 105, 118, 101, 115>>),
             R(<<97, 114, 102>>, <<97, 114, 118, 101, 115>>), R(<<108, 102>>, <<108, 118, 101, 115>>),
             R(<<101, 97, 102>>, <<101, 97, 118, 101, 115>>),
             R(<<101, 111, 102>>, <<101, 111, 118, 101, 115>>),
             R(<<111, 97, 102>>, <<111, 97, 118, 101, 115>>),
             R(<<104, 111, 111, 102>>, <<104, 111, 111, 118, 101, 115>>)}

        \* sis$ -> ses
        ruleSis ==
            {R(<<115, 105, 115>>, <<115, 101, 115>>)}

        \* (apheli|hyperbat|periheli|asyndet|noumen|phenomen|criteri|organ|prolegomen|hedr|
        \* automat)(?:a|on)$ -> $1a
        ruleOn ==
            {R(<<97, 112, 104, 101, 108, 105, 97>>, <<97, 112, 104, 101, 108, 105, 97>>),
             R(<<97, 112, 104, 101, 108, 105, 111, 110>>, <<97, 112, 104, 101, 108, 105, 97>>),
             R(<<104, 121, 112, 101, 114, 98, 97, 116, 97>>, <<104, 121, 112, 101, 114, 98, 97, 116, 97>>),
             R(<<104, 121, 112, 101, 114, 98, 97, 116, 111, 110>>, <<104, 121, 112, 101, 114, 98, 97, 116, 97>>),
             R(<<112, 101, 114, 105, 104, 101, 108, 105, 97>>, <<112, 101, 114, 105, 104, 101, 108, 105, 97>>),
             R(<<112, 101, 114, 105, 104, 101, 108, 105, 111, 110>>, <<112, 101, 114, 105, 104, 101, 108, 105, 97>>),
             R(<<97, 115, 121, 110, 100, 101, 116, 97>>, <<97, 115, 121, 110, 100, 101, 116, 97>>),
             R(<<97, 115, 121, 110, 100, 101, 116, 111, 110>>, <<97, 115, 121, 110, 100, 101, 116, 97>>),
             R(<<110, 111, 117, 109, 101, 110, 97>>, <<110, 111, 117, 109, 101, 110, 97>>),
             R(<<110, 111, 117, 109, 101, 110, 111, 110>>, <<110, 111, 117, 109, 101, 110, 97>>),
             R(<<112, 104, 101, 110, 111, 109, 101, 110, 97>>, <<112, 104, 101, 110, 111, 109, 101, 110, 97>>),
             R(<<112, 104, 101, 110, 111, 109, 101, 110, 111, 110>>, <<112, 104, 101, 110, 111, 109, 101, 110, 97>>),
             R(<<99, 114, 105, 116, 101, 114, 105, 97>>, <<99, 114, 105, 116, 101, 114, 105, 97>>),
             R(<<99, 114, 105, 116, 101, 114, 105, 111, 110>>, <<99, 114, 105, 116, 101, 114, 105, 97>>),
             R(<<111, 114, 103, 97, 110, 97>>, <<111, 114, 103, 97, 110, 97>>),
             R(<<111, 114, 103, 97, 110, 111, 110>>, <<111, 114, 103, 97, 110, 97>>),
             R(<<112, 114, 111, 108, 101, 103, 111, 109, 101, 110, 97>>, <<112, 114, 111, 108, 101, 103, 111, 109, 101, 110, 97>>),
             R(<<112, 114, 111, 108, 101, 103, 111, 109, 101, 110, 111, 110>>, <<112, 114, 111, 108, 101, 103, 111, 109, 101, 110, 97>>),
             R(<<104, 101, 100, 114, 97>>, <<104, 101, 100, 114, 97>>),
             R(<<104, 101, 100, 114, 111, 110>>, <<104, 101, 100, 114, 97>>),
             R(<<97, 117, 116, 111, 109, 97, 116, 97>>, <<97, 117, 116, 111, 109, 97, 116, 97>>),
             R(<<97, 117, 116, 111, 109, 97, 116, 111, 110>>, <<97, 117, 116, 111, 109, 97, 116, 97>>)}

        \* (agend|addend|millenni|dat|extrem|bacteri|desiderat|strat|candelabr|errat|ov|
        \* symposi|curricul|automat|quor)(?:a|um)$ -> $1a
        ruleUm ==
            {R(<<97, 103, 101, 110, 100, 97>>, <<97, 103, 101, 110, 100, 97>>),
             R(<<97, 103, 101, 110, 100, 117, 109>>, <<97, 103, 101, 110, 100, 97>>),
             R(<<97, 100, 100, 101, 110, 100, 97>>, <<97, 100, 100, 101, 110, 100, 97>>),
             R(<<97, 100, 100, 101, 110, 100, 117, 109>>, <<97, 100, 100, 101, 110, 100, 97>>),
             R(<<109, 105, 108, 108, 101, 110, 110, 105, 97>>, <<109, 105, 108, 108, 101, 110, 110, 105, 97>>),
             R(<<109, 105, 108, 108, 101, 110, 110, 105, 117, 109>>, <<109, 105, 108, 108, 101, 110, 110, 105, 97>>),
             R(<<100, 97, 116, 97>>, <<100, 97, 116, 97>>),
             R(<<100, 97, 116, 117, 109>>, <<100, 97, 116, 97>>),
             R(<<101, 120, 116, 114, 101, 109, 97>>, <<101, 120, 116, 114, 101, 109, 97>>),
             R(<<101, 120, 116, 114, 101, 109, 117, 109>>, <<101, 120, 116, 114, 101, 109, 97>>),
             R(<<98, 97, 99, 116, 101, 114, 105, 97>>, <<98, 97, 99, 116, 101, 114, 105, 97>>),
             R(<<98, 97, 99, 116, 101, 114, 105, 117, 109>>, <<98, 97, 99, 116, 101, 114, 105, 97>>),
             R(<<100, 101, 115, 105, 100, 101, 114, 97, 116, 97>>, <<100, 101, 115, 105, 100, 101, 114, 97, 116, 97>>),
             R(<<100, 101, 115, 105, 100, 101, 114, 97, 116, 117, 109>>, <<100, 101, 115, 105, 100, 101, 114, 97, 116, 97>>),
             R(<<115, 116, 114, 97, 116, 97>>, <<115, 116, 114, 97, 116, 97>>),
             R(<<115, 116, 114, 97, 116, 117, 109>>, <<115, 116, 114, 97, 116, 97>>),
             R(<<99, 97, 110, 100, 101, 108, 97, 98, 114, 97>>, <<99, 97, 110, 100, 101, 108, 97, 98, 114, 97>>),
             R(<<99, 97, 110, 100, 101, 108, 97, 98, 114, 117, 109>>, <<99, 97, 110, 100, 101, 108, 97, 98, 114, 97>>),
             R(<<101, 114, 114, 97, 116, 97>>, <<101, 114, 114, 97, 116, 97>>),
             R(<<101, 114, 114, 97, 116, 117, 109>>, <<101, 114, 114, 97, 116, 97>>),
             R(<<111, 118, 97>>, <<111, 118, 97>>), R(<<111, 118, 117, 109>>, <<111, 118, 97>>),
             R(<<115, 121, 109, 112, 111, 115, 105, 97>>, <<115, 121, 109, 112, 111, 115, 105, 97>>),
             R(<<115, 121, 109, 112, 111, 115, 105, 117, 109>>, <<115, 121, 109, 112, 111, 115, 105, 97>>),
             R(<<99, 117, 114, 114, 105, 99, 117, 108, 97>>, <<99, 117, 114, 114, 105, 99, 117, 108, 97>>),
             R(<<99, 117, 114, 114, 105, 99, 117, 108, 117, 109>>, <<99, 117, 114, 114, 105, 99, 117, 108, 97>>),
             R(<<97, 117, 116, 111, 109, 97, 116, 97>>, <<97, 117, 116, 111, 109, 97, 116, 97>>),
             R(<<97, 117, 116, 111, 109, 97, 116, 117, 109>>, <<97, 117, 116, 111, 109, 97, 116, 97>>),
             R(<<113, 117, 111, 114, 97>>, <<113, 117, 111, 114, 97>>),
             R(<<113, 117, 111, 114, 117, 109>>, <<113, 117, 111, 114, 97>>)}

        \* (her|at|gr)o$ -> $1oes
        ruleOes ==
            {R(<<104, 101, 114, 111>>, <<104, 101, 114, 111, 101, 115>>),
             R(<<97, 116, 111>>, <<97, 116, 111, 101, 115>>),
             R(<<103, 114, 111>>, <<103, 114, 111, 101, 115>>)}

        \* (seraph|cherub)(?:im)?$ -> $1im
        ruleIm ==
            {R(<<115, 101, 114, 97, 112, 104>>, <<115, 101, 114, 97, 112, 104, 105, 109>>),
             R(<<115, 101, 114, 97, 112, 104, 105, 109>>, <<115, 101, 114, 97, 112, 104, 105, 109>>),
             R(<<99, 104, 101, 114, 117, 98>>, <<99, 104, 101, 114, 117, 98, 105, 109>>),
             R(<<99, 104, 101, 114, 117, 98, 105, 109>>, <<99, 104, 101, 114, 117, 98, 105, 109>>)}

        \* (alumn|alg|vertebr)(?:a|ae)$ -> $1ae
        ruleAe ==
            {R(<<97, 108, 117, 109, 110, 97>>, <<97, 108, 117, 109, 110, 97, 101>>),
             R(<<97, 108, 117, 109, 110, 97, 101>>, <<97, 108, 117, 109, 110, 97, 101>>),
             R(<<97, 108, 103, 97>>, <<97, 108, 103, 97, 101>>),
             R(<<97, 108, 103, 97, 101>>, <<97, 108, 103, 97, 101>>),
             R(<<118, 101, 114, 116, 101, 98, 114, 97>>, <<118, 101, 114, 116, 101, 98, 114, 97, 101>>),
             R(<<118, 101, 114, 116, 101, 98, 114, 97, 101>>, <<118, 101, 114, 116, 101, 98, 114, 97, 101>>)}

        \* (alumn|syllab|vir|radi|nucle|fung|cact|stimul|termin|bacill|foc|uter|loc|strat)
        \* (?:us|i)$ -> $1i
        ruleI ==
            {R(<<97, 108, 117, 109, 110, 117, 115>>, <<97, 108, 117, 109, 110, 105>>),
             R(<<97, 108, 117, 109, 110, 105>>, <<97, 108, 117, 109, 110, 105>>),
             R(<<115, 121, 108, 108, 97, 98, 117, 115>>, <<115, 121, 108, 108, 97, 98, 105>>),
             R(<<115, 121, 108, 108, 97, 98, 105>>, <<115, 121, 108, 108, 97, 98, 105>>),
             R(<<118, 105, 114, 117, 115>>, <<118, 105, 114, 105>>),
             R(<<118, 105, 114, 105>>, <<118, 105, 114, 105>>),
             R(<<114, 97, 100, 105, 117, 115>>, <<114, 97, 100, 105, 105>>),
             R(<<114, 97, 100, 105, 105>>, <<114, 97, 100, 105, 105>>),
             R(<<110, 117, 99, 108, 101, 117, 115>>, <<110, 117, 99, 108, 101, 105>>),
             R(<<110, 117, 99, 108, 101, 105>>, <<110, 117, 99, 108, 101, 105>>),
             R(<<102, 117, 110, 103, 117, 115>>, <<102, 117, 110, 103, 105>>),
             R(<<102, 117, 110, 103, 105>>, <<102, 117, 110, 103, 105>>),
             R(<<99, 97, 99, 116, 117, 115>>, <<99, 97, 99, 116, 105>>),
             R(<<99, 97, 99, 116, 105>>, <<99, 97, 99, 116, 105>>),
             R(<<115, 116, 105, 109, 117, 108, 117, 115>>, <<115, 116, 105, 109, 117, 108, 105>>),
             R(<<115, 116, 105, 109, 117, 108, 105>>, <<115, 116, 105, 109, 117, 108, 105>>),
             R(<<116, 101, 114, 109, 105, 110, 117, 115>>, <<116, 101, 114, 109, 105, 110, 105>>),
             R(<<116, 101, 114, 109, 105, 110, 105>>, <<116, 101, 114, 109, 105, 110, 105>>),
             R(<<98, 97, 99, 105, 108, 108, 117, 115>>, <<98, 97, 99, 105, 108, 108, 105>>),
             R(<<98, 97, 99, 105, 108, 108, 105>>, <<98, 97, 99, 105, 108, 108, 105>>),
             R(<<102, 111, 99, 117, 115>>, <<102, 111, 99, 105>>),
             R(<<102, 111, 99, 105>>, <<102, 111, 99, 105>>),
             R(<<117, 116, 101, 114, 117, 115>>, <<117, 116, 101, 114, 105>>),
             R(<<117, 116, 101, 114, 105>>, <<117, 116, 101, 114, 105>>),
             R(<<108, 111, 99, 117, 115>>, <<108, 111, 99, 105>>),
             R(<<108, 111, 99, 105>>, <<108, 111, 99, 105>>),
             R(<<115, 116, 114, 97, 116, 117, 115>>, <<115, 116, 114, 97, 116, 105>>),
             R(<<115, 116, 114, 97, 116, 105>>, <<115, 116, 114, 97, 116, 105>>)}

        \* ([^l]ias|[aeiou]las|[ejzr]as|[iu]am)$ stays
        ruleAs ==
            {R(<<c>> \o e, <<c>> \o e) : c \in Chars \ {108}, e \in {<<105, 97, 115>>}}
            \cup {R(<<c>> \o e, <<c>> \o e) : c \in Vowels, e \in {<<108, 97, 115>>}}
            \cup {R(<<c>> \o e, <<c>> \o e) : c \in {101, 106, 122, 114}, e \in {<<97, 115>>}}
            \cup {R(<<c>> \o e, <<c>> \o e) : c \in {105, 117}, e \in {<<97, 109>>}}

        \* (e[mn]u)s?$ -> $1s
        ruleEmu ==
            {R(<<101, 109, 117>>, <<101, 109, 117, 115>>),
             R(<<101, 109, 117, 115>>, <<101, 109, 117, 115>>),
             R(<<101, 110, 117>>, <<101, 110, 117, 115>>),
             R(<<101, 110, 117, 115>>, <<101, 110, 117, 115>>)}

        \* (alias|[^aou]us|t[lm]as|gas|ris)$ -> $1es
        ruleUs ==
            {R(<<97, 108, 105, 97, 115>>, <<97, 108, 105, 97, 115, 101, 115>>),
             R(<<116, 108, 97, 115>>, <<116, 108, 97, 115, 101, 115>>),
             R(<<116, 109, 97, 115>>, <<116, 109, 97, 115, 101, 115>>),
             R(<<103, 97, 115>>, <<103, 97, 115, 101, 115>>),
             R(<<114, 105, 115>>, <<114, 105, 115, 101, 115>>)}
            \cup {R(<<c, 117, 115>>, <<c, 117, 115, 101, 115>>) : c \in Chars \ {97, 111, 117}}

        \* (ax|test)is$ -> $1es
        ruleAxis ==
            {R(<<97, 120, 105, 115>>, <<97, 120, 101, 115>>),
             R(<<116, 101, 115, 116, 105, 115>>, <<116, 101, 115, 116, 101, 115>>)}

        \* ([^aeiou]ese)$ stays
        ruleEse ==
            {R(<<c>> \o <<101, 115, 101>>, <<c>> \o <<101, 115, 101>>) : c \in Chars \ Vowels}

        \* s?$ -> s: a final s stays, and every other word takes one.
        ruleS ==
            {R(<<115>>, <<115>>), R(<<>>, <<115>>)}

        \* The plural rules of the library in the order it tries them: the rule
        \* added last comes first.
        pluralRules ==
            <<uncountableRules, ruleThou, ruleMen, ruleEaux, ruleChildren,
              rulePeople, ruleMice, ruleIces, ruleEs, ruleEy,
              ruleY, ruleVes, ruleSis, ruleOn, ruleUm,
              ruleOes, ruleIm, ruleAe, ruleI, ruleAs,
              ruleEmu, ruleUs, ruleAxis, ruleEse, ruleS>>

        \* The rewrite q applies to the word w.
        Matches(w, q) == HasSuffix(w, q.end) /\ (q.whole => Len(w) = Len(q.end))
    IN  IF s = <<>> THEN s
        ELSE LET k == CHOOSE k \in 1..Len(pluralRules) :
                        /\ \E r \in pluralRules[k] : Matches(s, r)
                        /\ \A j \in 1..(k - 1) : \A r \in pluralRules[j] : ~Matches(s, r)
                 r == CHOOSE r \in pluralRules[k] :
                        /\ Matches(s, r)
                        /\ \A q \in pluralRules[k] : Matches(s, q) => Len(q.end) <= Len(r.end)
             IN  SubSeq(s, 1, Len(s) - Len(r.end)) \o r.put

\* generateCausalRelationship: a Relationship with the plurals of the two
\* names as From and To, and nothing else.
GeneratedRelationship(from, to) ==
    [From |-> plural(from), To |-> plural(to), Polarity |-> "",
     Reasoning |-> "", PolarityReasoning |-> ""]

\* generateFeedbackLoop: the relationships of one ring
\* vars[1] -> vars[2] -> ... -> vars[n] -> vars[1].
RingRelationships(p) ==
    [i \in 1..Len(p) |-> GeneratedRelationship(p[i], p[(i % Len(p)) + 1])]

\* The relationships of one ring p[1] -> p[2] -> ... -> p[n] -> p[1] between
\* the names as they are given, every field set.
Ring(p) ==
    [i \in 1..Len(p) |-> FixtureRelationship(p[i], p[(i % Len(p)) + 1])]

\* The sequences of n pairwise different names drawn from the first k plain names.
Arrangements(k, n) ==
    {p \in [1..n -> {PlainNames[i] : i \in 1..k}] :
        \A i, j \in 1..n : i # j => p[i] # p[j]}

\* nouns: the variable names of the translation tests, in the order of the
\* list:
\*   frimbulator, whatajig, balack, whoziewhat, funkado, maxabizer,
\*   marticatene, reflupper, exeminte, oc, proptimatire, priary, houtal,
\*   poval, auspong, dominitoxing, outrance, illigent, yelb, traze,
\*   pablanksill, posistorather, crypteral, oclate, reveforly, yoffa,
\*   buwheal, geyflorrin, ih, aferraron, paffling, pershipfulty, copyring,
\*   dickstonyx, bellignorance, hashtockle, succupserva, relity, hazmick, ku,
\*   obvia, unliescatice, gissorm, phildiscals, loopnova, hoza, arinterpord,
\*   burgination, perstablintome, memostorer, baxtoy, hensologic, estintant,
\*   perfecton, raez, younjuring.
Nouns ==
    <<(<<102, 114, 105, 109, 98, 117, 108, 97, 116, 111, 114>>),
      (<<119, 104, 97, 116, 97, 106, 105, 103>>),
      (<<98, 97, 108, 97, 99, 107>>),
      (<<119, 104, 111, 122, 105, 101, 119, 104, 97, 116>>),
      (<<102, 117, 110, 107, 97, 100, 111>>),
      (<<109, 97, 120, 97, 98, 105, 122, 101, 114>>),
      (<<109, 97, 114, 116, 105, 99, 97, 116, 101, 110, 101>>),
      (<<114, 101, 102, 108, 117, 112, 112, 101, 114>>),
      (<<101, 120, 101, 109, 105, 110, 116, 101>>),
      (<<111, 99>>),
      (<<112, 114, 111, 112, 116, 105, 109, 97, 116, 105, 114, 101>>),
      (<<112, 114, 105, 97, 114, 121>>),
      (<<104, 111, 117, 116, 97, 108>>),
      (<<112, 111, 118, 97, 108>>),
      (<<97, 117, 115, 112, 111, 110, 103>>),
      (<<100, 111, 109, 105, 110, 105, 116, 111, 120, 105, 110, 103>>),
      (<<111, 117, 116, 114, 97, 110, 99, 101>>),
      (<<105, 108, 108, 105, 103, 101, 110, 116>>),
      (<<121, 101, 108, 98>>),
      (<<116, 114, 97, 122, 101>>),
      (<<112, 97, 98, 108, 97, 110, 107, 115, 105, 108, 108>>),
      (<<112, 111, 115, 105, 115, 116, 111, 114, 97, 116, 104, 101, 114>>),
      (<<99, 114, 121, 112, 116, 101, 114, 97, 108>>),
      (<<111, 99, 108, 97, 116, 101>>),
      (<<114, 101, 118, 101, 102, 111, 114, 108, 121>>),
      (<<121, 111, 102, 102, 97>>),
      (<<98, 117, 119, 104, 101, 97, 108>>),
      (<<103, 101, 121, 102, 108, 111, 114, 114, 105, 110>>),
      (<<105, 104>>),
      (<<97, 102, 101, 114, 114, 97, 114, 111, 110>>),
      (<<112, 97, 102, 102, 108, 105, 110, 103>>),
      (<<112, 101, 114, 115, 104, 105, 112, 102, 117, 108, 116, 121>>),
      (<<99, 111, 112, 121, 114, 105, 110, 103>>),
      (<<100, 105, 99, 107, 115, 116, 111, 110, 121, 120>>),
      (<<98, 101, 108, 108, 105, 103, 110, 111, 114, 97, 110, 99, 101>>),
      (<<104, 97, 115, 104, 116, 111, 99, 107, 108, 101>>),
      (<<115, 117, 99, 99, 117, 112, 115, 101, 114, 118, 97>>),
      (<<114, 101, 108, 105, 116, 121>>),
      (<<104, 97, 122, 109, 105, 99, 107>>),
      (<<107, 117>>),
      (<<111, 98, 118, 105, 97>>),
      (<<117, 110, 108, 105, 101, 115, 99, 97, 116, 105, 99, 101>>),
      (<<103, 105, 115, 115, 111, 114, 109>>),
      (<<112, 104, 105, 108, 100, 105, 115, 99, 97, 108, 115>>),
      (<<108, 111, 111, 112, 110, 111, 118, 97>>),
      (<<104, 111, 122, 97>>),
      (<<97, 114, 105, 110, 116, 101, 114, 112, 111, 114, 100>>),
      (<<98, 117, 114, 103, 105, 110, 97, 116, 105, 111, 110>>),
      (<<112, 101, 114, 115, 116, 97, 98, 108, 105, 110, 116, 111, 109, 101>>),
      (<<109, 101, 109, 111, 115, 116, 111, 114, 101, 114>>),
      (<<98, 97, 120, 116, 111, 121>>),
      (<<104, 101, 110, 115, 111, 108, 111, 103, 105, 99>>),
      (<<101, 115, 116, 105, 110, 116, 97, 110, 116>>),
      (<<112, 101, 114, 102, 101, 99, 116, 111, 110>>),
      (<<114, 97, 101, 122>>),
      (<<121, 111, 117, 110, 106, 117, 114, 105, 110, 103>>)>>

\* The loop lengths of a test case: lists of lengths >= 2 whose loops,
\* chained, use at most n nouns.
RECURSIVE LoopLengths(_)
LoopLengths(n) ==
    {<<>>} \cup
    UNION {{<<l>> \o rest : rest \in LoopLengths(n - (l - 1))} : l \in 2..n}

\* The loop lengths of the test cases of TestMultipleFeedbackLoops that use
\* fewer than ten nouns: {3, 6} and {5, 2, 4}.  The cases {3, 5, 6, 2, 6}
\* use eighteen.
TestLoopLengths == {<<3, 6>>, <<5, 2, 4>>}

\* TestMultipleFeedbackLoops: the relationships of the loops of the given
\* lengths; loop j runs over nouns[n : n+l], and n moves on by l - 1, so the
\* last variable of a loop is the first one of the next loop.
RECURSIVE ChainedRelationships(_, _)
ChainedRelationships(lengths, n) ==
    IF lengths = <<>> THEN <<>>
    ELSE RingRelationships(SubSeq(Nouns, n + 1, n + Head(lengths))) \o
         ChainedRelationships(Tail(lengths), n + Head(lengths) - 1)

(* ----------------------- the chat completion client ------------------- *)

\* Largest number of options passed to one ChatCompletion call.
MaxOptions == 2

\* A text as json.Unmarshal sees it.  Text that is not JSON, the empty
\* string included:
InvalidText == [json |-> "invalid"]

\* The JSON text null.
NullText == [json |-> "null"]

\* A JSON text that is well formed and no object: an array, a number, a
\* string.
ArrayText == [json |-> "array"]

\* A JSON object: members holds the values of its keys, mistyped the keys
\* whose value is of a JSON type that the Go field tagged with that key cannot
\* take (a number for a string, a string for an array).
ObjectText(members, mistyped) ==
    [json |-> "object", members |-> members, mistyped |-> mistyped]

\* The json tags of ChatCompletionResponse and of Map.
ResponseKeys == {"id", "object", "created", "model", "choices"}
MapKeys == {"title", "explanation", "causal_chains"}

\* The error of json.Unmarshal(text, &v) for a struct v whose fields are
\* tagged with the keys known; "" is nil.  null and keys without a field
\* are no error.
UnmarshalError(text, known) ==
    IF text.json = "invalid" THEN "SyntaxError"
    ELSE IF text.json = "array" THEN "UnmarshalTypeError"
    ELSE IF text.json = "object" /\ text.mistyped \cap known # {} THEN "UnmarshalTypeError"
    ELSE ""

\* The members json.Unmarshal stores: those of an object whose value fits
\* the field; a mistyped member is skipped and decoding goes on.
Members(text) ==
    IF text.json = "object"
    THEN [k \in DOMAIN text.members \ text.mistyped |-> text.members[k]]
    ELSE <<>>

\* The value json.Unmarshal leaves in a zero ChatCompletionResponse; of a
\* choice, the content of its message is all that Generate reads.
UnmarshalResponse(text) ==
    [Choices |->
        LET cs == Field(Members(text), "choices", <<>>)
        IN  [i \in 1..Len(cs) |->
                [Message |->
                    [Content |-> Field(Field(cs[i], "message", <<>>),
                                       "content", InvalidText)]]]]

\* The value json.Unmarshal leaves in a zero Map.
UnmarshalMap(text) == Unmarshal(Members(text))

\* An error value: fmt.Errorf("<wrap>: %w", cause); NoError is nil.
NoError == [wrap |-> "", cause |-> ""]
Errorf(wrap, cause) == [wrap |-> wrap, cause |-> cause]

\* A Generate that returns what was decoded together with the error.
DecodeLenient(body) ==
    LET ccr == UnmarshalResponse(body)
        content == ccr.Choices[1].Message.Content
    IN  IF UnmarshalError(body, ResponseKeys) # ""
        THEN [panic |-> FALSE, map |-> <<>>,
              err |-> Errorf("json.Unmarshal", UnmarshalError(body, ResponseKeys))]
        ELSE IF ccr.Choices = <<>>
        THEN [panic |-> TRUE, map |-> <<>>, err |-> NoError]
        ELSE [panic |-> FALSE, map |-> <<UnmarshalMap(content)>>,
              err |-> IF UnmarshalError(content, MapKeys) # ""
                      THEN Errorf("json.Unmarshal", UnmarshalError(content, MapKeys))
                      ELSE NoError]

\* Generate, from the response body to its return values: decode the
\* response, take the content of the message of choice 0, decode it into a
\* Map.  map is <<>> for a nil *Map; ccr.Choices[0] panics when the response
\* holds no choice.
Decode(body) ==
    LET ccr == UnmarshalResponse(body)
        content == ccr.Choices[1].Message.Content
    IN  IF UnmarshalError(body, ResponseKeys) # ""
        THEN [panic |-> FALSE, map |-> <<>>,
              err |-> Errorf("json.Unmarshal", UnmarshalError(body, ResponseKeys))]
        ELSE IF ccr.Choices = <<>>
        THEN [panic |-> TRUE, map |-> <<>>, err |-> NoError]
        ELSE IF UnmarshalError(content, MapKeys) # ""
        THEN [panic |-> FALSE, map |-> <<>>,
              err |-> Errorf("json.Unmarshal", UnmarshalError(content, MapKeys))]
        ELSE [panic |-> FALSE, map |-> <<UnmarshalMap(content)>>, err |-> NoError]

\* The zero requestOpts; a nil pointer is <<>>, a pointer to x is <<x>>.
ZeroOpts ==
    [temperature |-> <<>>, reasoningEffort |-> "", responseFormat |-> <<>>,
     maxTokens |-> 0, systemPrompt |-> ""]

\* A float64: a finite number, or NaN.
Float(x) == [nan |-> FALSE, x |-> x]
NaN == [nan |-> TRUE, x |-> 0]

\* The options: each is the assignment it makes to a requestOpts.
WithTemperature(t) == [field |-> "temperature", value |-> <<t>>]
WithReasoningEffort(lowMedHigh) == [field |-> "reasoningEffort", value |-> lowMedHigh]
WithMaxTokens(tokens) == [field |-> "maxTokens", value |-> tokens]
WithResponseFormat(name, strict, schema) ==
    [field |-> "responseFormat",
     value |-> <<[Name |-> name, Strict |-> strict, Schema |-> schema]>>]
WithSystemPrompt(prompt) == [field |-> "systemPrompt", value |-> prompt]

\* opt(&options)
ApplyOption(options, opt) == [options EXCEPT ![opt.field] = opt.value]

\* ApplyOptions: the options applied in order to a zero requestOpts.
RECURSIVE ApplyOptions(_)
ApplyOptions(opts) ==
    IF opts = <<>> THEN ZeroOpts
    ELSE ApplyOption(ApplyOptions(SubSeq(opts, 1, Len(opts) - 1)), opts[Len(opts)])

\* ChatCompletion: for OpenAI models the system prompt is the first message.
WithSystemMessage(msgs, reqOpts) ==
    IF reqOpts.systemPrompt # ""
    THEN <<[Role |-> "system", Content |-> reqOpts.systemPrompt]>> \o msgs
    ELSE msgs

\* ChatCompletion: the chatCompletionRequest built from the messages, the
\* model of the client and the options.  MaxTokens is not assigned and stays
\* at its zero value.
ChatCompletionRequest(msgs, modelName, reqOpts) ==
    [Messages |-> msgs,
     Model |-> modelName,
     ResponseFormat |->
        IF reqOpts.responseFormat # <<>>
        THEN <<[Type |-> "json_schema", JsonSchema |-> reqOpts.responseFormat[1]]>>
        ELSE <<>>,
     Temperature |-> reqOpts.temperature,
     ReasoningEffort |-> reqOpts.reasoningEffort,
     MaxTokens |-> 0]

\* The JSON object of a struct: members holds the value of every tagged
\* field, and a member tagged omitempty is left out when the field is the
\* zero value of its type: nil, "", 0 or false.
Object(members, empty) == [k \in DOMAIN members \ empty |-> members[k]]

\* json.Marshal of a Message: role and content are both omitempty.
MarshalMessage(msg) ==
    Object([role |-> msg.Role, content |-> msg.Content],
           (IF msg.Role = "" THEN {"role"} ELSE {})
           \cup (IF msg.Content = "" THEN {"content"} ELSE {}))

\* json.Marshal of a JsonSchema: name is always written, strict and schema
\* are omitempty.
MarshalJsonSchema(js) ==
    Object([name |-> js.Name, strict |-> js.Strict,
            schema |-> IF js.Schema # <<>> THEN js.Schema[1] ELSE ""],
           (IF ~js.Strict THEN {"strict"} ELSE {})
           \cup (IF js.Schema = <<>> THEN {"schema"} ELSE {}))

\* The error of json.Marshal(req), "" for nil: a float that is NaN cannot be
\* written as JSON.
MarshalError(req) ==
    IF req.Temperature # <<>> /\ req.Temperature[1].nan
    THEN "UnsupportedValueError" ELSE ""

\* json.Marshal of a chatCompletionRequest: the JSON object by its tags;
\* messages is always written, the other members are omitempty, and so is
\* the json_schema of a response format, which is never nil here.
Marshal(req) ==
    Object([messages |-> [i \in 1..Len(req.Messages) |-> MarshalMessage(req.Messages[i])],
            model |-> req.Model,
            response_format |->
                IF req.ResponseFormat # <<>>
                THEN [type |-> req.ResponseFormat[1].Type,
                      json_schema |-> MarshalJsonSchema(req.ResponseFormat[1].JsonSchema)]
                ELSE <<>>,
            temperature |-> IF req.Temperature # <<>> THEN req.Temperature[1].x ELSE 0,
            reasoning_effort |-> req.ReasoningEffort,
            max_tokens |-> req.MaxTokens],
           (IF req.Model = "" THEN {"model"} ELSE {})
           \cup (IF req.ResponseFormat = <<>> THEN {"response_format"} ELSE {})
           \cup (IF req.Temperature = <<>> THEN {"temperature"} ELSE {})
           \cup (IF req.ReasoningEffort = "" THEN {"reasoning_effort"} ELSE {})
           \cup (IF req.MaxTokens = 0 THEN {"max_tokens"} ELSE {}))

\* The base URLs of a client: the one of Ollama, and one that net/url does
\* not parse.
OllamaURL == "http://localhost:11434/v1"
MalformedURL == ":"

\* NewClient: it keeps its two arguments, whatever they are.
NewClient(apiBase, modelName) == [apiBaseUrl |-> apiBase, modelName |-> modelName]

\* The error of http.NewRequest(http.MethodPost, apiBaseUrl+"/chat/completions",
\* body), "" for nil: the URL must parse.
NewRequestError(apiBaseUrl) ==
    CASE apiBaseUrl = OllamaURL -> ""
      [] apiBaseUrl = MalformedURL -> "missing protocol scheme"

\* The clients a caller makes.
Clients == {NewClient(OllamaURL, "llama"), NewClient(MalformedURL, "llama")}

\* context.Background(): a context that holds no value.
Background == [debugDir |-> <<>>]

\* WithDebugDir: the context with dir stored under debugDirContextKey.
WithDebugDir(ctx, dir) == [ctx EXCEPT !.debugDir = <<dir>>]

\* DebugDir: ctx.Value(debugDirContextKey{}).(string).  Value returns nil
\* for a key the context does not hold, and the type assertion of nil to
\* string, written without the ", ok" form, panics.
DebugDir(ctx) ==
    IF ctx.debugDir = <<>> THEN [panic |-> TRUE, dir |-> ""]
    ELSE [panic |-> FALSE, dir |-> ctx.debugDir[1]]

\* path.Join(debugDir, name)
Join(debugDir, name) == [dir |-> debugDir, name |-> name]

\* The contexts a caller passes: none with a debug directory, one with the
\* empty directory name, one with a directory.
Contexts == {Background, WithDebugDir(Background, ""), WithDebugDir(Background, "debug")}

\* The options a caller passes, and the option lists of at most n of them.
Options ==
    {WithTemperature(Float(0)), WithTemperature(Float(7)), WithTemperature(NaN),
     WithReasoningEffort("low"), WithReasoningEffort("high"),
     WithMaxTokens(0), WithMaxTokens(1), WithMaxTokens(2),
     WithResponseFormat("a", TRUE, <<"schema">>), WithResponseFormat("b", FALSE, <<"schema">>),
     WithResponseFormat("c", FALSE, <<>>),
     WithSystemPrompt("be brief")}
OptionLists(n) == UNION {[1..k -> Options] : k \in 0..n}

\* The options Generate passes to ChatCompletion.
GenerateOptions ==
    <<WithResponseFormat("relationships_response", TRUE, <<"RelationshipsResponseSchema">>),
      WithMaxTokens(64 * 1024)>>

\* strings.Replace(defaultBackgroundPrompt, "{backgroundKnowledge}",
\* knowledge, 1), for the background knowledge of the Diagrammers.
BackgroundPrompt(knowledge) ==
    CASE knowledge = "knowledge" ->
            "Please incorporate the following background information into your answer.\n\nknowledge"

\* strings.Replace(defaultProblemStatementPrompt, "{problemStatement}",
\* statement, 1): the template is the placeholder and nothing else.
ProblemStatementPrompt(statement) == statement

\* The messages Generate sends: the system prompt with the schema in it
\* (written "systemPrompt" here), the background knowledge and the problem
\* statement, each in its template, when the diagrammer has them, then the
\* prompt of the user.
GenerateMessages(d, prompt) ==
    <<[Role |-> "system", Content |-> "systemPrompt"]>>
    \o (IF d.backgroundKnowledge # ""
        THEN <<[Role |-> "user", Content |-> BackgroundPrompt(d.backgroundKnowledge)]>>
        ELSE <<>>)
    \o (IF d.problemStatement # ""
        THEN <<[Role |-> "user", Content |-> ProblemStatementPrompt(d.problemStatement)]>>
        ELSE <<>>)
    \o <<[Role |-> "user", Content |-> prompt]>>

\* The diagrammers NewDiagrammer builds.
Diagrammers ==
    [modelName : {"", "llama"}, problemStatement : {"", "statement"},
     backgroundKnowledge : {"", "knowledge"}]

\* The texts a language model returns as the content of its message.
ContentTexts ==
    {InvalidText, NullText, ArrayText}
    \cup {ObjectText(ChainDocument(chains), mistyped) :
            chains \in ChainLists(PeerNames, 2), mistyped \in {{}, {"title"}, {"other"}}}

\* The bodies of a response with status 200.
ResponseTexts ==
    {InvalidText, NullText, ArrayText}
    \cup {ObjectText([model |-> "llama"], {}),
          ObjectText([choices |-> <<>>], {}),
          ObjectText([choices |-> <<>>], {"choices"})}
    \cup {ObjectText([choices |-> <<[message |-> [content |-> c]]>>], {}) :
            c \in ContentTexts}

\* What the HTTP exchange yields: an error of the transport, a status other
\* than 200, or status 200 with a body that can be read, or cannot.
Responses ==
    {[kind |-> "error"], [kind |-> "status"]}
    \cup {[kind |-> "ok", readable |-> r, body |-> b] :
            r \in BOOLEAN, b \in ResponseTexts}

(* ------------------------------- state -------------------------------- *)

VARIABLES
    sets,      \* two Sets under test: sets[i] is the key set of the Go map
    adds,      \* adds[i]: the elements added to sets[i] so far, in call order
    slices,    \* slices[i]: <<>>, or <<[after, slice]>> for the latest call of
               \* sets[i].Slice(): made after that many adds, it returned slice
    call,      \* the call of Generate or ChatCompletion that has been made:
               \* its position, client, arguments, the request it sent, the files
               \* it wrote and the values it returned
    peer,      \* a second thread that calls Variables() and Loops() on the same
               \* Map: the record of its own pc, outgoing, todo, visited, found,
               \* stack, loopsOut and varsOut
    origin,    \* what the Map was constructed from: a JSON document or the
               \* argument of NewMap; kept to state what the Map must equal
    m,         \* the Map under analysis; never assigned after construction
    pc,        \* "idle", "findCycles" while a Loops() call is running, or
               \* "panic" after a run-time panic of the Go program
    outgoing,  \* Loops: the adjacency map built from the chains
    todo,      \* findCycles: keys of outgoing the range loop has yet to yield
    visited,   \* searchState.visited
    found,     \* searchState.found
    stack,     \* the activations of search: [v, path, i], innermost last
    segment,   \* the argument of the latest addCycle call of this Loops() call
    loopsOut,  \* the values returned by the Loops() calls made so far
    varsOut    \* <<the value returned by the latest Variables() call>>

vars == <<sets, adds, slices, call, peer, origin, m, pc, outgoing, todo, visited, found, stack, segment, loopsOut, varsOut>>

searchVars == <<outgoing, todo, visited, found, stack, segment>>

setVars == <<sets, adds, slices>>

mapVars == <<origin, m, pc, searchVars, loopsOut, varsOut>>

\* Two Sets built by NewSet(a...) and NewSet(b...).
InitSets(a, b) ==
    /\ sets = <<NewSet(a), NewSet(b)>>
    /\ adds = <<a, b>>
    /\ slices = <<(<<>>), (<<>>)>>

\* The second thread before any call.
InitPeer ==
    [pc |-> "idle", outgoing |-> <<>>, todo |-> {}, visited |-> {}, found |-> <<>>,
     stack |-> <<>>, loopsOut |-> <<>>, varsOut |-> <<>>]

\* No call of Generate or ChatCompletion has been made.
InitCall ==
    [pc |-> "idle", by |-> "", client |-> NewClient("", ""), ctx |-> Background,
     opts |-> <<>>, request |-> <<>>,
     files |-> {}, response |-> <<>>, result |-> <<>>]

\* A constructed Map, before any call.
InitCalls(map) ==
    /\ call = InitCall
    /\ peer = InitPeer
    /\ m = map
    /\ pc = "idle"
    /\ outgoing = <<>>
    /\ todo = {}
    /\ visited = {}
    /\ found = <<>>
    /\ stack = <<>>
    /\ segment = <<>>
    /\ loopsOut = <<>>
    /\ varsOut = <<>>

\* A constructed Map, next to two empty Sets.
InitState(map) == InitCalls(map) /\ InitSets(<<>>, <<>>)

\* The state after a Map of the chain version was decoded from a document.
InitUnmarshal(doc) ==
    /\ origin = [by |-> "json.Unmarshal", document |-> doc]
    /\ InitState(Unmarshal(doc))

\* The state after the Map was decoded from the chain-shape document that
\* holds the given chains.
InitDecoded(chains) == InitUnmarshal(ChainDocument(chains))

\* The state after the Map was built by NewMap(relationships).
InitNewMap(relationships) ==
    /\ origin = [by |-> "NewMap", relationships |-> relationships]
    /\ InitState(NewMap(relationships))

\* Any Map that mentions at most MaxSlots variables.
Init == \E chains \in ChainLists(RawNames, MaxSlots) : InitDecoded(chains)

\* Any Map that mentions at most MaxAliasSlots variables, under several
\* spellings.
InitAlias == \E chains \in ChainLists(AliasNames, MaxAliasSlots) : InitDecoded(chains)

\* A Map of one chain that walks WalkLen edges over three variables.
InitWalk ==
    \E c \in ChainsOfSize({PlainNames[i] : i \in 1..3}, WalkLen + 1) :
        InitDecoded(<<c>>)

\* Any Map that mentions at most MaxBlankSlots variables, with empty and
\* blank names among them.
InitBlank == \E chains \in ChainLists(BlankNames, MaxBlankSlots) : InitDecoded(chains)

\* A Map decoded from a document of either shape that holds at most
\* MaxFlatLen relationships: a Map of the flat version, as the test file
\* declares it, or a Map of the chain version.
InitShapes ==
    \E rs \in RelationshipLists(RawNames, MaxFlatLen) :
        \E doc \in {FlatDocument(rs), ChainDocument(NewMap(rs).CausalChains)} :
            \/ /\ origin = [by |-> "json.Unmarshal", document |-> doc,
                            into |-> "Relationships"]
               /\ InitState(FlatUnmarshal(doc))
            \/ InitUnmarshal(doc)

\* The expected Map of a test case of TestMultipleFeedbackLoops: chained
\* loops over at most MaxNouns nouns, and the test's own cases over eight
\* and nine nouns.
InitChained ==
    \E lengths \in LoopLengths(MaxNouns) \cup TestLoopLengths :
        /\ origin = [by |-> "NewMap",
                     relationships |-> ChainedRelationships(lengths, 0),
                     loops |-> lengths]
        /\ InitState(NewMap(ChainedRelationships(lengths, 0)))

\* Two Sets built by NewSet from at most one element each, next to the
\* zero Map.
InitSet ==
    \E a, b \in ElementLists(1) :
        /\ origin = [by |-> "json.Unmarshal", document |-> ChainDocument(<<>>)]
        /\ InitCalls(Unmarshal(ChainDocument(<<>>)))
        /\ InitSets(a, b)

\* Any Map that mentions at most MaxPeerSlots variables, for two threads.
InitPeers == \E chains \in ChainLists(PeerNames, MaxPeerSlots) : InitDecoded(chains)

\* The regression fixture: the Map NewMap builds from the relationships of
\* testMap1, or the flat Map testMap1 itself.
InitFixture ==
    \/ InitNewMap(FixtureRelationships)
    \/ /\ origin = [by |-> "testMap1", relationships |-> FixtureRelationships]
       /\ InitState(testMap1)

\* One ring of 2..MaxRing variables, its relationships listed from any vertex.
InitRing ==
    \E n \in 2..MaxRing : \E p \in Arrangements(MaxRing, n) :
        InitNewMap(Ring(p))

\* A Map built by NewMap from any list of at most MaxEdges relationships, a
\* relationship repeated any number of times.
InitMulti == \E rs \in RelationshipLists(RawNames, MaxEdges) : InitNewMap(rs)

\* A Map built by NewMap from the six influences between three variables,
\* listed in any order.
InitTriangle == \E rs \in TriangleLists : InitNewMap(rs)

\* A Map built by NewMap from the six influences between three variables,
\* listed in any order; the same relationships in the opposite order are
\* kept for a second Map.
InitPermuted ==
    \E rs \in TriangleLists :
        /\ origin = [by |-> "NewMap", relationships |-> rs, permuted |-> Reverse(rs)]
        /\ InitState(NewMap(rs))

\* A client and a diagrammer before any call, next to the zero Map.
InitChat ==
    /\ origin = [by |-> "json.Unmarshal", document |-> ChainDocument(<<>>)]
    /\ InitState(Unmarshal(ChainDocument(<<>>)))

\* A Map of one chain that mentions MaxMentions variables.
InitLine == \E c \in ChainsOfSize(RawNames, MaxMentions) : InitDecoded(<<c>>)

(* ------------------------------ actions ------------------------------- *)

\* The innermost activation of search and the neighbour it is looking at.
Top == stack[Len(stack)]
Neighbors == EdgesOf(outgoing, Top.v)
Neighbor == Neighbors[Top.i]

\* A call of search that starts a new path at v.
ActivationRestart(path, v) == [v |-> v, path |-> <<v>>, i |-> 1]

\* A call of search(path, v): s.visited.Add(v); path = append(path, v).
Activation(path, v) == [v |-> v, path |-> Append(path, v), i |-> 1]

\* A chain with its names replaced by their normalized forms.
NormalizedChain(chain) ==
    [chain EXCEPT
        !.InitialVariable = Normalize(@),
        !.Relationships = [i \in 1..Len(@) |-> [@[i] EXCEPT !.Variable = Normalize(@)]]]

\* A Variables() that normalizes the names in place, in the chains of the Map.
VariablesCallInPlace ==
    /\ pc = "idle"
    /\ varsOut' = <<Variables(m.CausalChains)>>
    /\ m' = [m EXCEPT !.CausalChains = [c \in 1..Len(@) |-> NormalizedChain(@[c])]]
    /\ UNCHANGED <<setVars, call, peer, origin, pc, searchVars, loopsOut>>

\* m.Variables()
VariablesCall ==
    /\ pc = "idle"
    /\ varsOut' = <<Variables(m.CausalChains)>>
    /\ UNCHANGED <<setVars, call, peer, origin, m, pc, searchVars, loopsOut>>

\* m.Loops(), up to the call of findCycles: build outgoing, make searchState.
LoopsCall ==
    /\ pc = "idle"
    /\ Len(loopsOut) < MaxCalls
    /\ pc' = "findCycles"
    /\ outgoing' = Outgoing(m.CausalChains)
    /\ todo' = DOMAIN outgoing'
    /\ visited' = {}
    /\ found' = <<>>
    /\ stack' = <<>>
    /\ segment' = <<>>
    /\ UNCHANGED <<setVars, call, peer, origin, m, loopsOut, varsOut>>

\* A findCycles that keeps the visited set from one root to the next.
RangeRootKeep ==
    /\ pc = "findCycles"
    /\ stack = <<>>
    /\ \E v \in todo :
        /\ todo' = todo \ {v}
        /\ visited' = SetAdd(visited, v)
        /\ stack' = <<Activation(<<>>, v)>>
    /\ UNCHANGED <<setVars, call, peer, origin, m, pc, outgoing, found, segment, loopsOut, varsOut>>

\* findCycles, one iteration of "for v := range outgoing": Go yields the keys
\* in an unspecified order, each once.  clear(s.visited); s.search(path, v).
RangeRoot ==
    /\ pc = "findCycles"
    /\ stack = <<>>
    /\ \E v \in todo :
        /\ todo' = todo \ {v}
        /\ visited' = SetAdd({}, v)
        /\ stack' = <<Activation(<<>>, v)>>
    /\ UNCHANGED <<setVars, call, peer, origin, m, pc, outgoing, found, segment, loopsOut, varsOut>>

\* search: the neighbour is not visited, so recurse into it.
Descend ==
    /\ pc = "findCycles"
    /\ stack # <<>>
    /\ Top.i <= Len(Neighbors)
    /\ ~SetContains(visited, Neighbor)
    /\ visited' = SetAdd(visited, Neighbor)
    /\ stack' = Append(stack, Activation(Top.path, Neighbor))
    /\ UNCHANGED <<setVars, call, peer, origin, m, pc, outgoing, todo, found, segment, loopsOut, varsOut>>

\* search: the neighbour is visited (before, or by the recursion that has
\* just returned); if it lies on the path, the path from it on is a cycle.
\* Then the loop moves to the next neighbour.  slices.Min, the first step
\* of addCycle, panics when it is handed an empty slice.
CheckNeighbor ==
    /\ pc = "findCycles"
    /\ stack # <<>>
    /\ Top.i <= Len(Neighbors)
    /\ SetContains(visited, Neighbor)
    /\ LET i == Index(Top.path, Neighbor)
       IN  IF i >= 1 /\ CycleSegment(Top.path, i) = <<>>
           THEN /\ pc' = "panic"
                /\ segment' = <<>>
                /\ UNCHANGED <<found, stack>>
           ELSE /\ found' = IF i >= 1 THEN addCycle(found, CycleSegment(Top.path, i))
                                     ELSE found
                /\ segment' = IF i >= 1 THEN CycleSegment(Top.path, i) ELSE segment
                /\ stack' = [stack EXCEPT ![Len(stack)].i = @ + 1]
                /\ pc' = pc
    /\ UNCHANGED <<setVars, call, peer, origin, m, outgoing, todo, visited, loopsOut, varsOut>>

\* search: the loop over the neighbours is over, the activation returns.
Return ==
    /\ pc = "findCycles"
    /\ stack # <<>>
    /\ Top.i > Len(Neighbors)
    /\ stack' = SubSeq(stack, 1, Len(stack) - 1)
    /\ UNCHANGED <<setVars, call, peer, origin, m, pc, outgoing, todo, visited, found, segment, loopsOut, varsOut>>

\* Loops after findCycles has returned: close every loop, sort, return.
\* loop[0] panics when a recorded loop is empty.
LoopsReturn ==
    /\ pc = "findCycles"
    /\ stack = <<>>
    /\ todo = {}
    /\ IF \E k \in 1..Len(found) : found[k] = <<>>
       THEN pc' = "panic" /\ loopsOut' = loopsOut
       ELSE pc' = "idle" /\ loopsOut' = Append(loopsOut, SortStable(CloseLoops(found)))
    /\ UNCHANGED <<setVars, call, peer, origin, m, searchVars, varsOut>>

\* sets[i].Add(e)
SetAddCall ==
    \E i \in 1..2, e \in SetElements :
        /\ Len(adds[i]) < MaxAdds
        /\ sets' = [sets EXCEPT ![i] = SetAdd(@, e)]
        /\ adds' = [adds EXCEPT ![i] = Append(@, e)]
        /\ UNCHANGED <<slices, call, peer, mapVars>>

\* sets[i].Slice()
SetSliceCall ==
    \E i \in 1..2 : \E c \in Collected(sets[i]) :
        /\ slices' = [slices EXCEPT ![i] = <<[after |-> Len(adds[i]), slice |-> Slice(c)]>>]
        /\ UNCHANGED <<sets, adds, call, peer, mapVars>>

Next ==
    \/ VariablesCall
    \/ LoopsCall
    \/ RangeRoot
    \/ Descend
    \/ CheckNeighbor
    \/ Return
    \/ LoopsReturn

Spec == Init /\ [][Next]_vars

SpecAlias == InitAlias /\ [][Next]_vars

SpecWalk == InitWalk /\ [][Next]_vars

\* m.Variables() of the flat version.
FlatVariablesCall ==
    /\ pc = "idle"
    /\ varsOut' = <<FlatVariables(m.Relationships)>>
    /\ UNCHANGED <<setVars, call, peer, origin, m, pc, searchVars, loopsOut>>

\* m.Loops() of the flat version, up to the call of findCycles.
FlatLoopsCall ==
    /\ pc = "idle"
    /\ Len(loopsOut) < MaxCalls
    /\ pc' = "findCycles"
    /\ outgoing' = FlatOutgoing(m.Relationships)
    /\ todo' = DOMAIN outgoing'
    /\ visited' = {}
    /\ found' = <<>>
    /\ stack' = <<>>
    /\ segment' = <<>>
    /\ UNCHANGED <<setVars, call, peer, origin, m, loopsOut, varsOut>>

\* m.Loops() of the flat version, after findCycles: every loop is closed,
\* and the list is returned in the order of discovery.
FlatLoopsReturn ==
    /\ pc = "findCycles"
    /\ stack = <<>>
    /\ todo = {}
    /\ IF \E k \in 1..Len(found) : found[k] = <<>>
       THEN pc' = "panic" /\ loopsOut' = loopsOut
       ELSE pc' = "idle" /\ loopsOut' = Append(loopsOut, CloseLoops(found))
    /\ UNCHANGED <<setVars, call, peer, origin, m, searchVars, varsOut>>

\* The calls of the tests on a Map of either version: each Map is used
\* through the methods of its own type; findCycles, search and addCycle are
\* the same code in both versions.
NextFixture ==
    \/ "CausalChains" \in DOMAIN m /\ Next
    \/ /\ "Relationships" \in DOMAIN m
       /\ \/ FlatVariablesCall
          \/ FlatLoopsCall
          \/ RangeRoot
          \/ Descend
          \/ CheckNeighbor
          \/ Return
          \/ FlatLoopsReturn

SpecFixture == InitFixture /\ [][NextFixture]_vars

SpecRing == InitRing /\ [][Next]_vars

\* A call that has started keeps running: the steps of Loops() are taken as
\* long as one of them is possible.
Running == RangeRoot \/ Descend \/ CheckNeighbor \/ Return \/ LoopsReturn

NextSet == SetAddCall \/ SetSliceCall

(* ------------------------ the second thread --------------------------- *)

\* The steps of Variables() and Loops() taken by the second thread.  They
\* read the Map and the thread's own record, and write that record only.

\* The visited set of a search that all calls share.
VisitedShared == visited

\* s.visited of the second thread's call: made by its own findCycles.
PeerVisited == peer.visited

PeerTop == peer.stack[Len(peer.stack)]
PeerNeighbors == EdgesOf(peer.outgoing, PeerTop.v)
PeerNeighbor == PeerNeighbors[PeerTop.i]

\* m.Variables()
PeerVariablesCall ==
    /\ peer.pc = "idle"
    /\ peer' = [peer EXCEPT !.varsOut = <<Variables(m.CausalChains)>>]
    /\ UNCHANGED <<setVars, call, mapVars>>

\* m.Loops(), up to the call of findCycles; the second thread calls it once.
PeerLoopsCall ==
    /\ peer.pc = "idle"
    /\ peer.loopsOut = <<>>
    /\ peer' = [peer EXCEPT !.pc = "findCycles",
                            !.outgoing = Outgoing(m.CausalChains),
                            !.todo = DOMAIN Outgoing(m.CausalChains),
                            !.visited = {},
                            !.found = <<>>,
                            !.stack = <<>>]
    /\ UNCHANGED <<setVars, call, mapVars>>

\* findCycles, one iteration of the range over outgoing.
PeerRangeRoot ==
    /\ peer.pc = "findCycles"
    /\ peer.stack = <<>>
    /\ \E v \in peer.todo :
        peer' = [peer EXCEPT !.todo = @ \ {v},
                             !.visited = SetAdd({}, v),
                             !.stack = <<Activation(<<>>, v)>>]
    /\ UNCHANGED <<setVars, call, mapVars>>

\* search: the neighbour is not visited, so recurse into it.
PeerDescend ==
    /\ peer.pc = "findCycles"
    /\ peer.stack # <<>>
    /\ PeerTop.i <= Len(PeerNeighbors)
    /\ ~SetContains(PeerVisited, PeerNeighbor)
    /\ peer' = [peer EXCEPT !.visited = SetAdd(@, PeerNeighbor),
                            !.stack = Append(@, Activation(PeerTop.path, PeerNeighbor))]
    /\ UNCHANGED <<setVars, call, mapVars>>

\* search: the neighbour is visited; if it lies on the path, the path from
\* it on is a cycle.  slices.Min panics on an empty path.
PeerCheckNeighbor ==
    /\ peer.pc = "findCycles"
    /\ peer.stack # <<>>
    /\ PeerTop.i <= Len(PeerNeighbors)
    /\ SetContains(PeerVisited, PeerNeighbor)
    /\ LET i == Index(PeerTop.path, PeerNeighbor)
       IN  IF i >= 1 /\ CycleSegment(PeerTop.path, i) = <<>>
           THEN peer' = [peer EXCEPT !.pc = "panic"]
           ELSE peer' = [peer EXCEPT
                    !.found = IF i >= 1 THEN addCycle(@, CycleSegment(PeerTop.path, i))
                                        ELSE @,
                    !.stack = [@ EXCEPT ![Len(@)].i = @ + 1]]
    /\ UNCHANGED <<setVars, call, mapVars>>

\* search: the loop over the neighbours is over, the activation returns.
PeerReturn ==
    /\ peer.pc = "findCycles"
    /\ peer.stack # <<>>
    /\ PeerTop.i > Len(PeerNeighbors)
    /\ peer' = [peer EXCEPT !.stack = SubSeq(@, 1, Len(@) - 1)]
    /\ UNCHANGED <<setVars, call, mapVars>>

\* Loops after findCycles has returned: close every loop, sort, return.
PeerLoopsReturn ==
    /\ peer.pc = "findCycles"
    /\ peer.stack = <<>>
    /\ peer.todo = {}
    /\ IF \E k \in 1..Len(peer.found) : peer.found[k] = <<>>
       THEN peer' = [peer EXCEPT !.pc = "panic"]
       ELSE peer' = [peer EXCEPT !.pc = "idle",
                                 !.loopsOut = Append(@, SortStable(CloseLoops(peer.found)))]
    /\ UNCHANGED <<setVars, call, mapVars>>

NextPeer ==
    \/ PeerVariablesCall
    \/ PeerLoopsCall
    \/ PeerRangeRoot
    \/ PeerDescend
    \/ PeerCheckNeighbor
    \/ PeerReturn
    \/ PeerLoopsReturn

\* Two threads that call on the same Map, their steps interleaved.
NextPeers == Next \/ NextPeer

SpecPeers == InitPeers /\ [][NextPeers]_vars

\* NewMap(origin.permuted).Loops(), up to the call of findCycles: the run on
\* the second Map, made in the peer record once the calls on the first Map
\* are over.
PermutedLoopsCall ==
    /\ pc = "idle"
    /\ Len(loopsOut) = MaxCalls
    /\ peer.pc = "idle"
    /\ peer.loopsOut = <<>>
    /\ LET out == Outgoing(NewMap(origin.permuted).CausalChains)
       IN  peer' = [peer EXCEPT !.pc = "findCycles",
                                !.outgoing = out,
                                !.todo = DOMAIN out,
                                !.visited = {},
                                !.found = <<>>,
                                !.stack = <<>>]
    /\ UNCHANGED <<setVars, call, mapVars>>

\* The calls on the first Map, then one Loops() call on the second Map.
NextPermuted ==
    \/ Next
    \/ PermutedLoopsCall
    \/ PeerRangeRoot
    \/ PeerDescend
    \/ PeerCheckNeighbor
    \/ PeerReturn
    \/ PeerLoopsReturn

SpecPermuted == InitPermuted /\ [][NextPermuted]_vars

SpecSet == InitSet /\ [][NextSet]_vars

SpecChained == InitChained /\ [][Next]_vars

SpecShapes == InitShapes /\ [][NextFixture]_vars

SpecBlank == InitBlank /\ [][Next]_vars /\ WF_vars(Running)

SpecMulti == InitMulti /\ [][Next]_vars

SpecTriangle == InitTriangle /\ [][Next]_vars

(* ------------------- Generate and ChatCompletion ----------------------- *)

\* The message lists of a caller: one message of the user, with a content
\* or without.
UserMessages ==
    {<<[Role |-> "user", Content |-> "prompt"]>>, <<[Role |-> "user", Content |-> ""]>>}

\* The values a call returns: value is <<>> for nil.
Returning(value, err) == [value |-> value, err |-> err]

\* client.ChatCompletion(ctx, msgs, opts...) up to http.DefaultClient.Do:
\* apply the options, put the system prompt first, build and marshal the
\* request (which may fail), write it to request.json when the context
\* names a debug directory (the write may fail), make the HTTP request
\* (which fails for a URL that does not parse), send it.
ChatCompletionCall ==
    /\ call.pc = "idle"
    /\ \E c \in Clients, ctx \in Contexts, msgs \in UserMessages,
          opts \in OptionLists(MaxOptions), written \in BOOLEAN :
        LET reqOpts == ApplyOptions(opts)
            req == ChatCompletionRequest(WithSystemMessage(msgs, reqOpts),
                                         c.modelName, reqOpts)
            debug == DebugDir(ctx)
            made == [call EXCEPT !.by = "ChatCompletion", !.client = c,
                                 !.ctx = ctx, !.opts = opts]
            files == IF debug.dir # "" THEN {Join(debug.dir, "request.json")} ELSE {}
        IN  call' =
                IF MarshalError(req) # ""
                THEN [made EXCEPT !.pc = "returned",
                                  !.result = <<Returning(<<>>, Errorf("json.Marshal", MarshalError(req)))>>]
                ELSE IF debug.panic
                THEN [made EXCEPT !.pc = "panic"]
                ELSE IF debug.dir # "" /\ ~written
                THEN [made EXCEPT !.pc = "returned",
                                  !.result = <<Returning(<<>>, Errorf("os.WriteFile", "error"))>>]
                ELSE IF NewRequestError(c.apiBaseUrl) # ""
                THEN [made EXCEPT !.pc = "returned",
                                  !.files = files,
                                  !.result = <<Returning(<<>>, Errorf("http.NewRequest",
                                                                     NewRequestError(c.apiBaseUrl)))>>]
                ELSE [made EXCEPT !.pc = "sending",
                                  !.request = <<Marshal(req)>>,
                                  !.files = files]
    /\ UNCHANGED <<setVars, peer, mapVars>>

\* client.ChatCompletion from the answer of http.DefaultClient.Do on: an
\* error of the transport and a status other than 200 are returned as
\* errors; the body is read, written to response.json when the context names
\* a debug directory, and returned.
ChatCompletionRespond ==
    /\ call.pc = "sending"
    /\ call.by = "ChatCompletion"
    /\ \E resp \in Responses, written \in BOOLEAN :
        LET debug == DebugDir(call.ctx)
            got == [call EXCEPT !.response = <<resp>>]
        IN  call' =
                IF resp.kind = "error"
                THEN [got EXCEPT !.pc = "returned",
                                 !.result = <<Returning(<<>>, Errorf("http.DefaultClient.Do", "error"))>>]
                ELSE IF resp.kind = "status"
                THEN [got EXCEPT !.pc = "returned",
                                 !.result = <<Returning(<<>>, Errorf("http status code", "error"))>>]
                ELSE IF ~resp.readable
                THEN [got EXCEPT !.pc = "returned",
                                 !.result = <<Returning(<<>>, Errorf("io.ReadAll(resp.Body)", "error"))>>]
                ELSE IF debug.panic
                THEN [got EXCEPT !.pc = "panic"]
                ELSE IF debug.dir # "" /\ ~written
                THEN [got EXCEPT !.pc = "returned",
                                 !.result = <<Returning(<<>>, Errorf("os.WriteFile", "error"))>>]
                ELSE [got EXCEPT !.pc = "returned",
                                 !.files = IF debug.dir # ""
                                           THEN @ \cup {Join(debug.dir, "response.json")}
                                           ELSE @,
                                 !.result = <<Returning(<<resp.body>>, NoError)>>]
    /\ UNCHANGED <<setVars, peer, mapVars>>

\* diagrammer.Generate(prompt) up to http.DefaultClient.Do: build the
\* messages, make a client for the model of the diagrammer, call its
\* ChatCompletion with the response format and the max tokens; that
\* ChatCompletion takes no context, applies the options, builds, marshals
\* and sends the request.
GenerateCall ==
    /\ call.pc = "idle"
    /\ \E d \in Diagrammers, prompt \in {"", "prompt"} :
        LET c == NewClient(OllamaURL, d.modelName)
            reqOpts == ApplyOptions(GenerateOptions)
            req == ChatCompletionRequest(GenerateMessages(d, prompt), c.modelName, reqOpts)
        IN  call' = [call EXCEPT !.pc = "sending",
                                 !.by = "Generate",
                                 !.client = c,
                                 !.opts = GenerateOptions,
                                 !.request = <<Marshal(req)>>]
    /\ UNCHANGED <<setVars, peer, mapVars>>

\* diagrammer.Generate from the answer of http.DefaultClient.Do on:
\* ChatCompletion returns an error for an error of the transport and for a
\* status other than 200, else the body; Generate wraps the error, or reads
\* the body and decodes it.
GenerateRespond ==
    /\ call.pc = "sending"
    /\ call.by = "Generate"
    /\ \E resp \in Responses :
        LET got == [call EXCEPT !.response = <<resp>>]
        IN  call' =
                IF resp.kind = "error"
                THEN [got EXCEPT !.pc = "returned",
                                 !.result = <<Returning(<<>>, Errorf("c.ChatCompletion", "http.DefaultClient.Do"))>>]
                ELSE IF resp.kind = "status"
                THEN [got EXCEPT !.pc = "returned",
                                 !.result = <<Returning(<<>>, Errorf("c.ChatCompletion", "http status code"))>>]
                ELSE IF ~resp.readable
                THEN [got EXCEPT !.pc = "returned",
                                 !.result = <<Returning(<<>>, Errorf("io.ReadAll", "error"))>>]
                ELSE IF Decode(resp.body).panic
                THEN [got EXCEPT !.pc = "panic"]
                ELSE [got EXCEPT !.pc = "returned",
                                 !.result = <<Returning(Decode(resp.body).map,
                                                        Decode(resp.body).err)>>]
    /\ UNCHANGED <<setVars, peer, mapVars>>

NextChat ==
    \/ ChatCompletionCall
    \/ ChatCompletionRespond
    \/ GenerateCall
    \/ GenerateRespond

SpecChat == InitChat /\ [][NextChat]_vars

SpecLine == InitLine /\ [][Next]_vars

(* --------------------------- the graph of a Map ----------------------- *)

\* The directed edges the chains assert: entry i of a chain is an edge from
\* the variable before it to its own variable, both normalized.
ChainEdgeSet(chains) ==
    UNION {{<<Normalize(FromOf(chains[c], i)),
              Normalize(chains[c].Relationships[i].Variable)>> :
                i \in 1..Len(chains[c].Relationships)} : c \in 1..Len(chains)}

GraphEdges == ChainEdgeSet(m.CausalChains)

\* The vertices that are an endpoint of some edge.
Endpoints(E) == {e[1] : e \in E} \cup {e[2] : e \in E}

\* x is the lexicographically smallest string of the sequence p.
IsLeast(x, p) == \A i \in 1..Len(p) : StrCompare(x, p[i]) <= 0

\* p holds pairwise different elements.
Distinct(p) == \A i, j \in 1..Len(p) : i # j => p[i] # p[j]

\* The simple directed cycles of the graph with edge set E, each taken once:
\* as the sequence of its vertices that starts at its smallest vertex.
SimpleCycles(E) ==
    {p \in UNION {[1..n -> Endpoints(E)] : n \in 1..Cardinality(Endpoints(E))} :
        /\ Distinct(p)
        /\ IsLeast(p[1], p)
        /\ \A i \in 1..Len(p) : <<p[i], p[(i % Len(p)) + 1]>> \in E}

\* The loops of the graph as Loops() is to report them: closed.
ClosedCycles(E) == {Append(p, p[1]) : p \in SimpleCycles(E)}

\* The elements of a sequence.
Range(s) == {s[i] : i \in 1..Len(s)}

\* A Loops() call has returned and no other is running.
Returned == pc = "idle" /\ loopsOut # <<>>

(* ------------------------------- claims ------------------------------- *)

\* C1 (as stated): completeness of Loops(): every simple directed cycle of
\* the graph of the Map appears, closed and rotated to start at its smallest
\* vertex, in every list Loops() returns.
C1_AllCyclesReported ==
    Returned =>
        \A k \in 1..Len(loopsOut) : ClosedCycles(GraphEdges) \subseteq Range(loopsOut[k])

\* C2: soundness of Loops(): every returned sequence is a closed simple cycle
\* of the graph: first = last, every consecutive pair is an edge asserted by
\* a chain, and no vertex but the repeated endpoint occurs twice.
C2_LoopsAreSimpleCycles ==
    Returned =>
        \A k \in 1..Len(loopsOut) : \A l \in Range(loopsOut[k]) :
            /\ Len(l) >= 2
            /\ l[1] = l[Len(l)]
            /\ \A i \in 1..(Len(l) - 1) : <<l[i], l[i + 1]>> \in GraphEdges
            /\ Distinct(SubSeq(l, 1, Len(l) - 1))

\* C2 witness: a call has returned a loop through three vertices together
\* with a shorter loop.
C2_Witness ==
    /\ Returned
    /\ \E l \in Range(loopsOut[1]) : Len(l) = 4
    /\ \E l \in Range(loopsOut[1]) : Len(l) < 4
\* C3: determinism of Loops(): all calls on the same Map return the identical
\* list, whatever order the range over the adjacency map takes in each call.
C3_SameListEveryCall ==
    \A i, j \in 1..Len(loopsOut) : loopsOut[i] = loopsOut[j]

\* C3 witness: two calls have returned two or more loops found from two or
\* more roots, and the second call discovered them in another order than
\* the order of the returned list.
C3_Witness ==
    /\ pc = "idle"
    /\ Len(loopsOut) >= 2
    /\ Len(loopsOut[2]) >= 2
    /\ Cardinality(DOMAIN outgoing) >= 2
    /\ CloseLoops(found) # loopsOut[2]

\* C4: no sequence twice: the found list holds pairwise different cycles
\* after any sequence of addCycle calls, and so does every returned list.
C4_NoDuplicates ==
    /\ Distinct(found)
    /\ \A k \in 1..Len(loopsOut) : Distinct(loopsOut[k])

\* C4 witness: the latest addCycle call was handed a cycle that an earlier
\* call had recorded (it equals a record that is not the newest), so it was
\* discarded.
C4_Witness ==
    /\ segment # <<>>
    /\ \E k \in 1..(Len(found) - 1) :
          /\ Range(found[k]) = Range(segment)
          /\ Len(found[k]) = Len(segment)
          /\ \E r \in 1..Len(segment) :
                found[k] = SubSeq(segment, r, Len(segment)) \o SubSeq(segment, 1, r - 1)

\* c is the rotation of p that begins with the smallest element of p.
IsLeastRotation(c, p) ==
    /\ IsLeast(c[1], p)
    /\ \E r \in 1..Len(p) : c = SubSeq(p, r, Len(p)) \o SubSeq(p, 1, r - 1)

\* C5: canonical rotation: the cycle recorded for a path segment is the
\* rotation of the segment that begins with its smallest vertex; every
\* recorded cycle begins with its smallest vertex, and every returned loop
\* starts and ends with its smallest vertex.
C5_CanonicalRotation ==
    /\ segment # <<>> => \E k \in 1..Len(found) : IsLeastRotation(found[k], segment)
    /\ \A k \in 1..Len(found) : found[k] # <<>> /\ IsLeast(found[k][1], found[k])
    /\ \A k \in 1..Len(loopsOut) : \A l \in Range(loopsOut[k]) :
          IsLeast(l[1], l) /\ l[Len(l)] = l[1]

\* C5 witness: addCycle was handed a segment of three vertices that does not
\* begin with its smallest vertex, and the record of it does.
C5_Witness ==
    /\ Len(segment) = 3
    /\ ~IsLeast(segment[1], segment)
    /\ \E k \in 1..Len(found) : IsLeastRotation(found[k], segment)

\* a comes before b, or equals it, in the order of the result: shorter
\* first, and lexicographic among the loops of one length.
InOrder(a, b) ==
    \/ Len(a) < Len(b)
    \/ Len(a) = Len(b) /\ SliceCompare(a, b) <= 0

\* C6: ordering of the result: every returned list holds the closed cycles
\* of the found list, sorted by length and then lexicographically; loops
\* that compare equal keep their discovery order.
C6_Sorted ==
    Returned =>
        LET out == loopsOut[Len(loopsOut)]
            closed == CloseLoops(found)
        IN  /\ \A i, j \in 1..Len(out) : i < j => InOrder(out[i], out[j])
            /\ Len(out) = Len(closed)
            /\ Range(out) = Range(closed)
            /\ \A i, j \in 1..Len(closed) :
                  (i < j /\ InOrder(closed[i], closed[j]) /\ InOrder(closed[j], closed[i]))
                  => \E a, b \in 1..Len(out) : a < b /\ out[a] = closed[i] /\ out[b] = closed[j]

\* C6 witness: a call returned loops of different lengths and of one length,
\* and the sort moved them: a longer loop had been discovered before a
\* shorter one.
C6_Witness ==
    /\ Returned
    /\ \E i, j \in 1..Len(found) : i < j /\ Len(found[i]) > Len(found[j])
    /\ \E i, j \in 1..Len(found) : i # j /\ Len(found[i]) = Len(found[j])
\* The variable mentions of the chains, as written.
Mentions(chains) ==
    UNION {{chains[c].InitialVariable} \cup
           {chains[c].Relationships[i].Variable : i \in 1..Len(chains[c].Relationships)} :
              c \in 1..Len(chains)}

\* C7 (as stated): Variables() equals exactly the set of normalized vertices
\* that are an endpoint of some edge of the graph, also for chain lists with
\* chains of zero entries.
C7_VariablesAreEndpoints ==
    varsOut # <<>> => varsOut[1] = Endpoints(GraphEdges)

\* C7 (amended): Variables() equals exactly the set of the normalized initial
\* variables and entry variables of the chains; it contains every edge
\* endpoint, and it equals the set of edge endpoints when every chain has at
\* least one entry.
C7_VariablesAreMentions ==
    varsOut # <<>> =>
        /\ varsOut[1] = {Normalize(n) : n \in Mentions(m.CausalChains)}
        /\ Endpoints(GraphEdges) \subseteq varsOut[1]
        /\ (\A c \in 1..Len(m.CausalChains) : Len(m.CausalChains[c].Relationships) >= 1)
              => varsOut[1] = Endpoints(GraphEdges)

\* C7 witness: Variables() has returned for a Map with a chain of zero
\* entries whose initial variable is the endpoint of no edge, with another
\* chain that has edges, and with two spellings of one variable.
C7_Witness ==
    /\ varsOut # <<>>
    /\ GraphEdges # {}
    /\ \E c \in 1..Len(m.CausalChains) :
          /\ m.CausalChains[c].Relationships = <<>>
          /\ Normalize(m.CausalChains[c].InitialVariable) \notin Endpoints(GraphEdges)
          /\ Normalize(m.CausalChains[c].InitialVariable) \in varsOut[1]
    /\ \E a, b \in Mentions(m.CausalChains) : a # b /\ Normalize(a) = Normalize(b)

\* Variables() returned vs and every Loops() call returned exactly the four
\* loops c-t-c, c-r-c, tb-t-tb and c-t-tb-r-c over the names tb, t, r, c.
FixtureResult(tb, t, r, c) ==
    /\ varsOut # <<>> => varsOut[1] = {tb, t, r, c}
    /\ Returned =>
          \A k \in 1..Len(loopsOut) :
              /\ Len(loopsOut[k]) = 4
              /\ Range(loopsOut[k]) =
                    {<<c, t, c>>, <<c, r, c>>, <<tb, t, tb>>, <<c, t, tb, r, c>>}

\* C8 (as stated): for the regression fixture, whether it is the Map
\* NewMap builds from the seven relationships or the literal testMap1,
\* Variables() is the set of the 4 names as the fixture writes them,
\* "Tax Burden", "Tensions", "Resistance", "Clashes", and every Loops() call
\* returns exactly the 4 loops written with these names, as
\* TestExtractingResults asserts, for every root order.
C8_FixtureAsWritten == FixtureResult(TaxBurden, Tensions, Resistance, Clashes)

\* C9: single cycle, any starting point: for relationships that form one
\* ring, listed from any of its vertices, every Loops() call returns exactly
\* one loop: the ring, closed, starting at its smallest vertex.  The value
\* depends on the edges only, so it is the same for every rotation.
C9_OneLoopPerRing ==
    Returned =>
        /\ Cardinality(ClosedCycles(GraphEdges)) = 1
        /\ \A k \in 1..Len(loopsOut) :
              /\ Len(loopsOut[k]) = 1
              /\ loopsOut[k][1] \in ClosedCycles(GraphEdges)
              /\ Len(loopsOut[k][1]) = Len(m.CausalChains) + 1

\* C9 witness: a ring of three or more relationships, listed from a vertex
\* that is not its smallest, has been searched and its loop returned.
C9_Witness ==
    /\ Returned
    /\ Len(m.CausalChains) >= 3
    /\ Len(loopsOut[1]) = 1
    /\ loopsOut[1][1][1] # Normalize(m.CausalChains[1].InitialVariable)
    /\ loopsOut[1][1][2] # Normalize(m.CausalChains[1].InitialVariable)

\* C10: no cycles, no loops: every Loops() call on a Map whose graph is
\* acyclic returns the empty list; on a Map with no chains Variables()
\* returns the empty set and Loops() the empty list.
C10_AcyclicNoLoops ==
    /\ (Returned /\ SimpleCycles(GraphEdges) = {})
          => \A k \in 1..Len(loopsOut) : loopsOut[k] = <<>>
    /\ m.CausalChains = <<>> =>
          /\ varsOut # <<>> => varsOut[1] = {}
          /\ \A k \in 1..Len(loopsOut) : loopsOut[k] = <<>>

\* C10 witness: Loops() has returned the empty list for an acyclic graph in
\* which some vertex has two incoming edges, so the search met a visited
\* vertex that is not on the path.
C10_Witness ==
    /\ Returned
    /\ loopsOut[1] = <<>>
    /\ SimpleCycles(GraphEdges) = {}
    /\ \E e, f \in GraphEdges : e # f /\ e[2] = f[2]
    /\ Cardinality(GraphEdges) >= 3

\* The places where the chains assert the edge e: <<chain, entry>> pairs.
Assertions(e) ==
    {ci \in (1..Len(m.CausalChains)) \X (1..MaxSlots) :
        /\ ci[2] <= Len(m.CausalChains[ci[1]].Relationships)
        /\ <<Normalize(FromOf(m.CausalChains[ci[1]], ci[2])),
             Normalize(m.CausalChains[ci[1]].Relationships[ci[2]].Variable)>> = e}

\* C11: a self-loop V -> V is reported by every Loops() call as the closed
\* loop [V, V], at exactly one position of the returned list, however often
\* the edge is asserted and whatever other cycles V lies on.
C11_SelfLoopOnce ==
    Returned =>
        \A k \in 1..Len(loopsOut) : \A e \in GraphEdges :
            e[1] = e[2] =>
                Cardinality({j \in 1..Len(loopsOut[k]) :
                                loopsOut[k][j] = <<e[1], e[1]>>}) = 1

\* C11 witness: a call has returned [V, V] for an edge V -> V that two
\* entries assert, together with a longer loop through the same V.
C11_Witness ==
    /\ Returned
    /\ \E v \in Endpoints(GraphEdges) :
        /\ Cardinality(Assertions(<<v, v>>)) >= 2
        /\ <<v, v>> \in Range(loopsOut[1])
        /\ \E l \in Range(loopsOut[1]) : Len(l) >= 3 /\ v \in Range(l)

\* The variables a chain mentions, in order: the initial one, then one per
\* relationship entry.
MentionSeq(chain) ==
    <<chain.InitialVariable>> \o
        [i \in 1..Len(chain.Relationships) |-> chain.Relationships[i].Variable]

\* The edges a chain asserts, in order: one per pair of neighbouring mentions.
EdgeSeq(chain) ==
    [i \in 1..(Len(MentionSeq(chain)) - 1) |->
        <<Normalize(MentionSeq(chain)[i]), Normalize(MentionSeq(chain)[i + 1])>>]

\* The edges of all chains, chain after chain.
RECURSIVE AllEdges(_)
AllEdges(chains) ==
    IF chains = <<>> THEN <<>>
    ELSE AllEdges(SubSeq(chains, 1, Len(chains) - 1)) \o EdgeSeq(chains[Len(chains)])

\* The targets of the edges of the list that leave from, in list order.
TargetsFrom(edges, from) ==
    LET Leaves(e) == e[1] = from
        sel == SelectSeq(edges, Leaves)
    IN  [i \in 1..Len(sel) |-> sel[i][2]]

\* Loops() has just built its adjacency map.
Built == pc = "findCycles" /\ stack = <<>> /\ todo = DOMAIN outgoing

\* C13: a chain with n relationship entries contributes exactly n edges to
\* the adjacency map of Loops(): from the initial variable to entry 0, then
\* from entry i-1 to entry i; a chain without entries contributes none.  So
\* the map holds, per source, the targets of these edges in order, has no
\* other key, and holds as many targets as the chains have entries.
C13_ChainEdges ==
    Built =>
        LET edges == AllEdges(m.CausalChains)
        IN  /\ DOMAIN outgoing = {edges[i][1] : i \in 1..Len(edges)}
            /\ \A from \in DOMAIN outgoing : outgoing[from] = TargetsFrom(edges, from)
            /\ \A c \in 1..Len(m.CausalChains) :
                  Len(EdgeSeq(m.CausalChains[c])) = Len(m.CausalChains[c].Relationships)

\* C13 witness: the adjacency map was built from a chain of three entries
\* that asserts one edge twice, next to a chain without entries.
C13_Witness ==
    /\ Built
    /\ \E c, d \in 1..Len(m.CausalChains) :
        /\ Len(m.CausalChains[c].Relationships) = 3
        /\ m.CausalChains[d].Relationships = <<>>
    /\ \E from \in DOMAIN outgoing :
        Len(outgoing[from]) = 2 /\ outgoing[from][1] = outgoing[from][2]

\* a and b are the same text up to the case of the letters A..Z.
CaseEq(a, b) ==
    /\ Len(a) = Len(b)
    /\ \A i \in 1..Len(a) :
        \/ a[i] = b[i]
        \/ a[i] \in 65..90 /\ b[i] = a[i] + 32
        \/ b[i] \in 65..90 /\ a[i] = b[i] + 32

\* x[i..j] is x without its surrounding white space.
IsCore(x, i, j) ==
    /\ \A k \in 1..Len(x) : (k < i \/ k > j) => IsSpace(x[k])
    /\ i <= j => (~IsSpace(x[i]) /\ ~IsSpace(x[j]))
    /\ i > j => (i = 1 /\ j = 0)

\* Two spellings of one variable: equal after trimming the surrounding
\* white space and folding the case.
SameVariable(x, y) ==
    LET ij == CHOOSE p \in (1..(Len(x) + 1)) \X (0..Len(x)) : IsCore(x, p[1], p[2])
        kl == CHOOSE p \in (1..(Len(y) + 1)) \X (0..Len(y)) : IsCore(y, p[1], p[2])
    IN  CaseEq(SubSeq(x, ij[1], ij[2]), SubSeq(y, kl[1], kl[2]))

\* A name in normalized form: no surrounding white space, no capital letter.
IsNormalForm(v) ==
    /\ IsCore(v, 1, Len(v))
    /\ \A i \in 1..Len(v) : v[i] \notin 65..90

\* The vertices of the adjacency map of Loops(): its keys and its targets.
Vertices(out) == DOMAIN out \cup UNION {Range(out[k]) : k \in DOMAIN out}

\* The edges between mentions as they are spelled.
SpelledEdges ==
    UNION {{<<MentionSeq(m.CausalChains[c])[i], MentionSeq(m.CausalChains[c])[i + 1]>> :
              i \in 1..Len(m.CausalChains[c].Relationships)} : c \in 1..Len(m.CausalChains)}

\* C14: normalization gives node identity.  Every name in Variables(), in
\* the adjacency map and in the loops is in normalized form; every mention
\* is a spelling of exactly one returned variable, so two mentions are one
\* variable exactly when they are equal after trimming and case-folding;
\* and every asserted edge joins the vertices its two mentions spell.
C14_NormalizedIdentity ==
    /\ (pc = "idle" /\ varsOut # <<>>) =>
        /\ \A v \in varsOut[1] : IsNormalForm(v)
        /\ \A v \in varsOut[1] : \E x \in Mentions(m.CausalChains) : SameVariable(x, v)
        /\ \A x \in Mentions(m.CausalChains) :
              Cardinality({v \in varsOut[1] : SameVariable(x, v)}) = 1
        /\ \A x, y \in Mentions(m.CausalChains) :
              SameVariable(x, y) <=>
                  \E v \in varsOut[1] : SameVariable(x, v) /\ SameVariable(y, v)
    /\ Built =>
        /\ \A v \in Vertices(outgoing) : IsNormalForm(v)
        /\ \A v, w \in Vertices(outgoing) : SameVariable(v, w) => v = w
        /\ \A e \in SpelledEdges :
              \E k \in DOMAIN outgoing :
                  /\ SameVariable(e[1], k)
                  /\ \E t \in Range(outgoing[k]) : SameVariable(e[2], t)
    /\ Returned =>
        \A k \in 1..Len(loopsOut) : \A l \in Range(loopsOut[k]) :
            \A v \in Range(l) : IsNormalForm(v)

\* C14 witness: the chains spell one variable in two ways, no loop closes
\* between the mentions as spelled, and yet Variables() has returned fewer
\* names than there are spellings and Loops() a loop through that variable.
C14_Witness ==
    /\ Returned
    /\ varsOut # <<>>
    /\ SimpleCycles(SpelledEdges) = {}
    /\ Cardinality(varsOut[1]) < Cardinality(Mentions(m.CausalChains))
    /\ \E l \in Range(loopsOut[1]) :
        \E x, y \in Mentions(m.CausalChains) :
            x # y /\ SameVariable(x, l[1]) /\ SameVariable(y, l[1])

\* No step of the program has panicked, and no recorded cycle is empty.
NoPanic ==
    /\ pc # "panic"
    /\ \A k \in 1..Len(found) : found[k] # <<>>
    /\ pc = "findCycles" /\ found # <<>> => segment # <<>>

\* C12: totality.  For every Map, with zero chains, zero-entry chains,
\* self-loops, parallel edges and empty names, no step panics: addCycle is
\* never handed an empty path and no empty cycle is closed with loop[0];
\* Variables() returns in its one step, and every Loops() call that has
\* started returns.
C12_Total == []NoPanic /\ (pc = "findCycles" ~> pc = "idle")

\* C12 witness: Loops() has returned the loop on the empty name for a Map
\* that asserts it twice and has a chain without entries, and Variables()
\* has returned the empty name.
C12_Witness ==
    /\ Returned
    /\ varsOut = << {<<>>} >>
    /\ << <<>>, <<>> >> \in Range(loopsOut[1])
    /\ Cardinality(Assertions(<< <<>>, <<>> >>)) = 2
    /\ \E c \in 1..Len(m.CausalChains) : m.CausalChains[c].Relationships = <<>>

\* The Map as it was constructed from its origin.
Constructed ==
    IF origin.by = "NewMap" THEN NewMap(origin.relationships)
    ELSE IF origin.by = "testMap1" THEN testMap1
    ELSE IF "into" \in DOMAIN origin THEN FlatUnmarshal(origin.document)
    ELSE Unmarshal(origin.document)

\* C15: Variables() and Loops() leave the Map unchanged.  No step of a call
\* changes Title, Explanation or CausalChains, so the Map stays as it was
\* constructed, and no step changes a list that an earlier Loops() call
\* has returned.
C15_Frame ==
    [][/\ m' = m
       /\ m' = Constructed
       /\ \A k \in 1..Len(loopsOut) :
             Len(loopsOut') >= k /\ loopsOut'[k] = loopsOut[k]]_vars

\* C15 witness: Variables() and two Loops() calls have returned for a Map
\* whose names are not all in normalized form, the first call with a loop.
C15_Witness ==
    /\ pc = "idle"
    /\ varsOut # <<>>
    /\ Len(loopsOut) = 2
    /\ loopsOut[1] # <<>>
    /\ varsOut[1] # Mentions(m.CausalChains)
    /\ m = Constructed

\* The relationship list with the names of its relationships normalized.
NormalizedList(rs) ==
    [i \in 1..Len(rs) |->
        [rs[i] EXCEPT !.From = Normalize(rs[i].From), !.To = Normalize(rs[i].To)]]

\* The edge set of the flat relationship list.
FlatEdges(rs) == {<<Normalize(rs[i].From), Normalize(rs[i].To)>> : i \in 1..Len(rs)}

\* The relationship lists that differ from rs in the Reasoning of one
\* relationship.
OtherReasonings(rs) ==
    {[rs EXCEPT ![i].Reasoning = t] : i \in 1..Len(rs), t \in {"", "why", "because"}}
        \ {rs}

\* C17 (as stated): NewMap(rs) is equivalent to the flat list rs: one chain
\* per relationship, in input order, with InitialVariable = From and one
\* entry carrying To, Polarity and PolarityReasoning; the adjacency map,
\* Variables() and Loops() are those of the edges From -> To taken in order,
\* the names normalized as everywhere in the chain version;
\* and no field of a relationship is lost: the Map tells rs from every list
\* that differs from it in a field (From, To, Polarity and PolarityReasoning
\* by the chains above, Reasoning by the last conjunct).
C17_NewMapEquivalent ==
    origin.by = "NewMap" =>
        LET rs == origin.relationships
        IN  /\ Len(m.CausalChains) = Len(rs)
            /\ \A i \in 1..Len(rs) :
                /\ m.CausalChains[i].InitialVariable = rs[i].From
                /\ Len(m.CausalChains[i].Relationships) = 1
                /\ m.CausalChains[i].Relationships[1].Variable = rs[i].To
                /\ m.CausalChains[i].Relationships[1].Polarity = rs[i].Polarity
                /\ m.CausalChains[i].Relationships[1].PolarityReasoning
                      = rs[i].PolarityReasoning
            /\ Built => outgoing = FlatOutgoing(NormalizedList(rs))
            /\ varsOut # <<>> => varsOut[1] = Endpoints(FlatEdges(rs))
            /\ Returned =>
                  \A k \in 1..Len(loopsOut) :
                      Range(loopsOut[k]) \subseteq ClosedCycles(FlatEdges(rs))
            /\ \A rs2 \in OtherReasonings(rs) : NewMap(rs2) # m

\* The edges a document asserts, in either shape, with the names as the
\* methods of the decoded Map write them: trimmed and in lower case by the
\* chain version, as they are by the flat version.
DocumentEdges(doc) ==
    LET Name(x) == IF "CausalChains" \in DOMAIN m THEN Normalize(x) ELSE x
    IN  {<<Name(r.from), Name(r.to)>> : r \in Range(Field(doc, "relationships", <<>>))}
        \cup UNION {{<<Name(FromOf(UnmarshalChain(c), i)), Name(c.relationships[i].variable)>> :
                        i \in 1..Len(c.relationships)} :
                       c \in Range(Field(doc, "causal_chains", <<>>))}

\* C18 (as stated): both input shapes give the same graph.  Whichever
\* shape the document has, and whichever version of Map it is decoded
\* into, Variables() of the decoded Map is the set of the endpoints of the
\* edges the document asserts, Loops() returns cycles of these edges, and
\* Loops() is not empty when these edges hold a cycle.
C18_ShapesAgree ==
    origin.by = "json.Unmarshal" =>
        LET E == DocumentEdges(origin.document)
        IN  /\ (pc = "idle" /\ varsOut # <<>>) => varsOut[1] = Endpoints(E)
            /\ Returned =>
                  \A k \in 1..Len(loopsOut) :
                      /\ Range(loopsOut[k]) \subseteq ClosedCycles(E)
                      /\ SimpleCycles(E) # {} => loopsOut[k] # <<>>

\* The number of relationships generated before those of loop j.
RECURSIVE LoopStart(_, _)
LoopStart(lengths, j) ==
    IF j = 1 THEN 0 ELSE LoopStart(lengths, j - 1) + lengths[j - 1]

\* The variables of generated loop j, as Loops() writes them: the sources
\* of the relationships generated for it.
LoopNouns(lengths, j) ==
    {Normalize(origin.relationships[i].From) :
        i \in (LoopStart(lengths, j) + 1)..(LoopStart(lengths, j) + lengths[j])}

\* C19: chained feedback loops are counted exactly.  For relationships
\* generated as k simple cycles of lengths >= 2, each sharing exactly one
\* variable with the next, every Loops() call on NewMap(relationships)
\* returns exactly k loops, one through the variables of each generated
\* cycle.
C19_ChainedLoopsCounted ==
    (Returned /\ "loops" \in DOMAIN origin) =>
        \A k \in 1..Len(loopsOut) :
            /\ Len(loopsOut[k]) = Len(origin.loops)
            /\ \A j \in 1..Len(origin.loops) :
                  \E l \in Range(loopsOut[k]) :
                      /\ Len(l) = origin.loops[j] + 1
                      /\ Range(l) = LoopNouns(origin.loops, j)

\* C19 witness: Loops() has returned three loops for three chained cycles,
\* the middle one of two variables.
C19_Witness ==
    /\ Returned
    /\ "loops" \in DOMAIN origin
    /\ Len(origin.loops) = 3
    /\ origin.loops[2] = 2
    /\ origin.loops[3] >= 3
    /\ Len(loopsOut[1]) = 3

\* The elements added to sets[i] by its first n adds.
Added(i, n) == {adds[i][k] : k \in 1..n}

\* C20: Set is a mathematical set.  After any sequence of Adds, Contains(e)
\* holds exactly for the elements added at least once; Slice() lists exactly
\* the elements added before it, each once, in ascending order; and two Sets
\* built from the same elements, in any insertion order and with any
\* repetition, are equal and give the same Slice().
C20_SetIsMathematicalSet ==
    /\ \A i \in 1..2 : \A e \in SetElements :
          SetContains(sets[i], e) <=> \E k \in 1..Len(adds[i]) : adds[i][k] = e
    /\ \A i \in 1..2 : slices[i] # <<>> =>
          LET r == slices[i][1]
          IN  /\ Range(r.slice) = Added(i, r.after)
              /\ Len(r.slice) = Cardinality(Added(i, r.after))
              /\ \A k \in 1..(Len(r.slice) - 1) :
                    StrCompare(r.slice[k], r.slice[k + 1]) < 0
    /\ Added(1, Len(adds[1])) = Added(2, Len(adds[2])) => sets[1] = sets[2]
    /\ (/\ slices[1] # <<>>
        /\ slices[2] # <<>>
        /\ Added(1, slices[1][1].after) = Added(2, slices[2][1].after))
          => slices[1][1].slice = slices[2][1].slice

\* C20 witness: two Sets of two or more elements were built from the same
\* elements, one with a repeated Add and in another order than the other,
\* and both have returned their Slice().
C20_Witness ==
    /\ Len(adds[1]) > Len(adds[2])
    /\ Cardinality(sets[1]) >= 2
    /\ sets[1] = sets[2]
    /\ adds[1][1] # adds[2][1]
    /\ slices[1] # <<>> /\ slices[1][1].after = Len(adds[1])
    /\ slices[2] # <<>> /\ slices[2][1].after = Len(adds[2])
    /\ slices[1][1].slice = slices[2][1].slice

\* The list Loops() returns when it runs alone on a Map of the size drawn
\* here: the closed simple cycles of the graph, each once, by length and
\* then lexicographically.
IsLoopsAlone(ls) ==
    /\ Range(ls) = ClosedCycles(GraphEdges)
    /\ Len(ls) = Cardinality(ClosedCycles(GraphEdges))
    /\ \A i, j \in 1..Len(ls) : i < j => InOrder(ls[i], ls[j])

\* The set Variables() returns when it runs alone.
IsVariablesAlone(vs) == vs = {Normalize(n) : n \in Mentions(m.CausalChains)}

\* Every value the two threads have got back is the value of a call run alone.
ResultsAsAlone ==
    /\ Returned => \A k \in 1..Len(loopsOut) : IsLoopsAlone(loopsOut[k])
    /\ (peer.pc = "idle" /\ peer.loopsOut # <<>>) =>
          \A k \in 1..Len(peer.loopsOut) : IsLoopsAlone(peer.loopsOut[k])
    /\ (pc = "idle" /\ varsOut # <<>>) => IsVariablesAlone(varsOut[1])
    /\ (peer.pc = "idle" /\ peer.varsOut # <<>>) => IsVariablesAlone(peer.varsOut[1])
    /\ pc # "panic" /\ peer.pc # "panic"

\* The state of the first thread's calls.
firstVars == <<pc, searchVars, loopsOut, varsOut>>

\* C16: concurrent use.  When two threads call Variables() and Loops() on
\* the same Map, their steps interleaved in any way, no step writes the Map,
\* a step of one thread changes only the state that thread's call allocated,
\* and every call returns the value it returns when it runs alone.
C16_ConcurrentCalls ==
    /\ []ResultsAsAlone
    /\ [][/\ m' = m
          /\ peer' # peer => firstVars' = firstVars
          /\ firstVars' # firstVars => peer' = peer]_vars

\* C16 witness: the first thread has returned from one Loops() call and is
\* searching in its second one, while the second thread is in the middle of
\* its own search; each has recorded a cycle and their visited sets differ.
C16_Witness ==
    /\ pc = "findCycles"
    /\ peer.pc = "findCycles"
    /\ loopsOut # <<>>
    /\ stack # <<>>
    /\ peer.stack # <<>>
    /\ found # <<>>
    /\ peer.found # <<>>
    /\ visited # peer.visited

\* The number of positions of the sequence s that hold x.
Count(s, x) == Cardinality({i \in 1..Len(s) : s[i] = x})

\* C22: parallel edges are kept: when Loops() has built its adjacency map
\* (no later step of the call assigns it), the destination list of
\* every source holds each target once per assertion of the edge, in the
\* order of the assertions; and every loop of a returned list, through a
\* repeated edge or not, stands at one position of the list.
C22_ParallelEdgesKept ==
    /\ Built =>
          \A e \in GraphEdges :
              /\ Count(outgoing[e[1]], e[2]) = Cardinality(Assertions(e))
              /\ outgoing[e[1]] = TargetsFrom(AllEdges(m.CausalChains), e[1])
    /\ Returned =>
          \A k \in 1..Len(loopsOut) : \A l \in Range(loopsOut[k]) :
              Count(loopsOut[k], l) = 1

\* C22 witness: a call has returned a loop of two vertices that runs through
\* an edge asserted twice; the destination list of its source holds the
\* target twice.
C22_Witness ==
    /\ Returned
    /\ \E e \in GraphEdges :
        /\ e[1] # e[2]
        /\ Cardinality(Assertions(e)) = 2
        /\ Count(outgoing[e[1]], e[2]) = 2
        /\ <<e[2], e[1]>> \in GraphEdges
        /\ \E l \in Range(loopsOut[1]) : Range(l) = {e[1], e[2]}

\* C27: loops and variables agree: once Variables() and Loops() have both
\* returned on a Map, every vertex of every returned loop is an element of
\* the set Variables() returned.
C27_LoopVerticesAreVariables ==
    (Returned /\ varsOut # <<>>) =>
        \A k \in 1..Len(loopsOut) : \A l \in Range(loopsOut[k]) :
            Range(l) \subseteq varsOut[1]

\* C27 witness: both calls have returned; the loops run through two
\* vertices, and Variables() holds a third that is on no loop.
C27_Witness ==
    /\ Returned
    /\ varsOut # <<>>
    /\ Cardinality(UNION {Range(l) : l \in Range(loopsOut[1])}) = 2
    /\ Cardinality(varsOut[1]) = 3

\* The path of every activation of search that is on the stack: pairwise
\* distinct vertices, all of them visited, every consecutive pair an edge,
\* the root first and the vertex of the activation last, one vertex longer
\* than the path of the caller.
PathInvariant ==
    pc = "findCycles" =>
        \A k \in 1..Len(stack) :
            LET path == stack[k].path
            IN  /\ Distinct(path)
                /\ Range(path) \subseteq visited
                /\ \A i \in 1..(Len(path) - 1) : <<path[i], path[i + 1]>> \in GraphEdges
                /\ path[1] = stack[1].v
                /\ path[Len(path)] = stack[k].v
                /\ Len(path) = k
                /\ k > 1 => SubSeq(path, 1, k - 1) = stack[k - 1].path

\* One step of a root's search: a recursive call of search is made for a
\* vertex that was not visited and marks it; the visited set loses nothing
\* while the root's search lasts; a cycle is recorded for a visited
\* neighbour only.
EnteredOnce ==
    (pc = "findCycles" /\ stack # <<>>) =>
        /\ Len(stack') > Len(stack) =>
              /\ ~SetContains(visited, stack'[Len(stack')].v)
              /\ SetContains(visited', stack'[Len(stack')].v)
        /\ stack' # <<>> => visited \subseteq visited'
        /\ found' # found => SetContains(visited, Neighbor)

\* C30: the search path invariant: in every state of a root's search the
\* path holds pairwise distinct visited vertices joined by edges and starts
\* at the root, and search is entered at most once per vertex per root: each
\* entry is for an unvisited vertex, marks it, and no mark is removed before
\* the next root; a cycle is recorded only for an already visited neighbour.
C30_SearchPath == []PathInvariant /\ [][EnteredOnce]_vars

\* C30 witness: the search is three calls deep, and the innermost call is
\* looking at a neighbour that lies on its path.
C30_Witness ==
    /\ pc = "findCycles"
    /\ Len(stack) = 3
    /\ Top.i <= Len(Neighbors)
    /\ Index(Top.path, Neighbor) >= 1

\* The sequence handed to the latest addCycle call is recorded as a
\* sequence, rotated to its smallest vertex, whatever is recorded over the
\* same vertices; and every recorded cycle is in the list the call returns.
Recorded ==
    /\ (pc # "panic" /\ segment # <<>>) => Rotate(segment) \in Range(found)
    /\ Returned =>
          \A c \in Range(found) : Append(c, c[1]) \in Range(loopsOut[Len(loopsOut)])

\* While a Loops() call runs, no recorded cycle is dropped or replaced.
KeptRecorded ==
    (pc = "findCycles" /\ pc' = "findCycles") =>
        /\ Len(found') >= Len(found)
        /\ SubSeq(found', 1, Len(found)) = found

\* C23: deduplication compares sequences, not vertex sets: every cycle the
\* search hands to addCycle is recorded unless the same sequence is recorded
\* and stays recorded, so two cycles over the same vertices in a different
\* cyclic order are both recorded and both appear in Loops().
C23_SequencesNotSets == []Recorded /\ [][KeptRecorded]_vars

\* C23 witness: a call has returned both orientations of a cycle through
\* three vertices.
C23_Witness ==
    /\ Returned
    /\ \E a, b \in Range(loopsOut[1]) :
        /\ Len(a) = 4
        /\ a # b
        /\ Range(a) = Range(b)

\* The vertices that lie on a directed cycle of the graph with edge set E.
OnCycle(E) == UNION {Range(c) : c \in SimpleCycles(E)}

\* C25: every vertex on a cycle is reported: every vertex that lies on a
\* directed cycle of the graph of the Map, a self-loop included, occurs in a
\* loop of every list Loops() returns; so a returned list is empty only if
\* the graph has no cycle.
C25_CycleVerticesReported ==
    Returned =>
        \A k \in 1..Len(loopsOut) :
            /\ \A v \in OnCycle(GraphEdges) : \E l \in Range(loopsOut[k]) : v \in Range(l)
            /\ loopsOut[k] = <<>> => SimpleCycles(GraphEdges) = {}

\* C25 witness: a call has returned on a graph of four edges with two
\* cycles, one of them through three vertices, and a vertex that lies on
\* one of the two only.
C25_Witness ==
    /\ Returned
    /\ Cardinality(GraphEdges) = 4
    /\ Cardinality(SimpleCycles(GraphEdges)) = 2
    /\ \E v \in OnCycle(GraphEdges) :
          Cardinality({c \in SimpleCycles(GraphEdges) : v \in Range(c)}) = 1
    /\ \E c \in SimpleCycles(GraphEdges) : Len(c) = 3

\* C24 (as stated): fixed search order: two runs of the cycle search on the
\* same Map take the roots and the neighbours in the same order, so when both
\* runs are over, the two found lists hold the same cycles in the same
\* order, before any sorting.
C24_SameDiscoveryOrder ==
    (Returned /\ peer.pc = "idle" /\ peer.loopsOut # <<>>) => found = peer.found

\* C26 (as stated): Loops() depends only on which edges exist: the Map built
\* from a list of relationships and the Map built from the same
\* relationships in another order return the same list of loops.
C26_OrderIndependent ==
    (Returned /\ peer.pc = "idle" /\ peer.loopsOut # <<>>) =>
        peer.loopsOut[1] = loopsOut[1]

\* A call of the named function has come to its end: it returned or
\* panicked.
Ended(by) == call.by = by /\ call.pc \in {"returned", "panic"}

\* The body of the response a call got with status 200, when it could be
\* read.
GotBody == call.response # <<>> /\ call.response[1].kind = "ok" /\ call.response[1].readable
Body == call.response[1].body

\* The text is not valid JSON for a struct tagged with the keys: it is no
\* JSON, or JSON that is no object and not null, or an object in which the
\* value of one of the keys has the wrong type.
NotValidFor(text, keys) ==
    \/ text.json \in {"invalid", "array"}
    \/ text.json = "object" /\ \E k \in keys : k \in text.mistyped

\* The body is a response that carries a message: an object with a first
\* choice.  ContentOf is the content of that message.
CarriesMessage(body) ==
    /\ ~NotValidFor(body, ResponseKeys)
    /\ body.json = "object"
    /\ "choices" \in DOMAIN body.members
    /\ body.members.choices # <<>>
ContentOf(body) == body.members.choices[1].message.content

\* C21: decode failures are errors, never Maps: when the body of the
\* response is not valid JSON for the response envelope, or the content of
\* its message is not valid JSON for a Map, Generate returns a nil Map and an
\* error wrapped as "json.Unmarshal"; and whenever Generate returns an error
\* its Map is nil, so no partly filled Map is ever returned.
C21_DecodeFailuresAreErrors ==
    /\ (Ended("Generate") /\ GotBody) =>
          ((\/ NotValidFor(Body, ResponseKeys)
            \/ CarriesMessage(Body) /\ NotValidFor(ContentOf(Body), MapKeys))
           => /\ call.pc = "returned"
              /\ call.result[1].value = <<>>
              /\ call.result[1].err.wrap = "json.Unmarshal"
              /\ call.result[1].err.cause \in {"SyntaxError", "UnmarshalTypeError"})
    /\ (call.by = "Generate" /\ call.pc = "returned") =>
          /\ call.result[1].value = <<>> <=> call.result[1].err # NoError
          /\ call.result[1].value # <<>> =>
                call.result[1].value[1] = UnmarshalMap(ContentOf(Body))

\* C21 witness: Generate has returned nil and a json.Unmarshal error for a
\* content that holds a chain and a title of the wrong type, from which a
\* Map could be filled in part.
C21_Witness ==
    /\ Ended("Generate")
    /\ GotBody
    /\ CarriesMessage(Body)
    /\ ContentOf(Body).json = "object"
    /\ "title" \in ContentOf(Body).mistyped
    /\ UnmarshalMap(ContentOf(Body)).CausalChains # <<>>
    /\ call.result[1].value = <<>>
    /\ call.result[1].err = Errorf("json.Unmarshal", "UnmarshalTypeError")

\* C28 (as stated): debug output is optional: a ChatCompletion call whose
\* context carries no debug directory does not panic and writes no file; it
\* sends the request, unless the request cannot be marshalled or the URL
\* of the client does not parse.
C28_DebugOptional ==
    (call.by = "ChatCompletion" /\ call.ctx = Background) =>
        /\ call.pc # "panic"
        /\ call.files = {}
        /\ \/ call.request # <<>>
           \/ /\ call.pc = "returned"
              /\ call.result[1].err.wrap \in {"json.Marshal", "http.NewRequest"}

\* The value the last option of the list that assigns the field assigns to
\* it, or the zero value when no option does.
RECURSIVE LastSet(_, _, _)
LastSet(opts, field, zero) ==
    IF opts = <<>> THEN zero
    ELSE IF opts[Len(opts)].field = field THEN opts[Len(opts)].value
    ELSE LastSet(SubSeq(opts, 1, Len(opts) - 1), field, zero)

\* C29 (as stated): every request option reaches the request: the request
\* that was sent carries the last value set for temperature, reasoning
\* effort, response format and max tokens; after WithMaxTokens(n) with
\* n > 0 its max_tokens member is n.
C29_OptionsReachRequest ==
    call.request # <<>> =>
        LET sent == call.request[1]
            temperature == LastSet(call.opts, "temperature", <<>>)
            effort == LastSet(call.opts, "reasoningEffort", "")
            format == LastSet(call.opts, "responseFormat", <<>>)
            tokens == LastSet(call.opts, "maxTokens", 0)
        IN  /\ temperature # <<>> =>
                "temperature" \in DOMAIN sent /\ sent.temperature = temperature[1].x
            /\ effort # "" =>
                "reasoning_effort" \in DOMAIN sent /\ sent.reasoning_effort = effort
            /\ format # <<>> =>
                /\ "response_format" \in DOMAIN sent
                /\ sent.response_format.json_schema.name = format[1].Name
            /\ tokens > 0 =>
                "max_tokens" \in DOMAIN sent /\ sent.max_tokens = tokens

====
